---- MODULE Spec2Model ----
(***************************************************************************)
(* security-reporter: the validation engine.                               *)
(*                                                                         *)
(*   SpecAgg   calculateSummary / determineOverallStatus on result lists   *)
(*   SpecOrch  runValidation: the declared checks started in declaration   *)
(*             order, completing in any order, joined by Promise.all       *)
(*   SpecWalk  walkAndCollect / findTestFiles: two traversal invocations   *)
(*             interleaved at their stat/readdir suspension points         *)
(*   SpecProc  spawnCommand and the three checks that call it              *)
(*   SpecHang  runValidation with one spawned command that hangs           *)
(*   SpecScan  checkSecrets: loadPatterns, scanDirectory, scanFile         *)
(*   SpecSettle SpecProc with a timer that expires when left armed        *)
(*   SpecTwice checkSecrets called twice on the same tree                  *)
(*   SpecTrav  both traversals on a tree with failing file-system calls    *)
(*   SpecEnv   checkEnvFiles                                               *)
(*   SpecGuard the containment test of the traversals on chosen paths      *)
(***************************************************************************)
EXTENDS Integers, Sequences, FiniteSets, TLC

VARIABLES
  \* ---- aggregation (validators.ts) ----
  aggChecks,     \* the CheckResult list handed to the aggregation
  aggReport,     \* <<>> or <<the report built from aggChecks>>
  \* ---- orchestration (validators.ts, checks/*.ts) ----
  cfg,           \* the GuardianConfig runValidation was called with
  started,       \* how many declared checks have been called so far
  slot,          \* per declared check: "idle", "pending", "throw" or its status
  outOfOrder,    \* history: a check completed while an earlier-declared one was pending
  run,           \* the promise of runValidation: [state, report]
  \* ---- test-file walker (checks/tests.ts) ----
  visitedInodes, \* the module-level Set of "dev:ino" ids
  walk,          \* per traversal invocation: its call stack, output and history
  \* ---- process runner (checks/security.ts spawnCommand and its callers) ----
  caller,        \* the check that called spawnCommand
  auditLevel,    \* security.auditLevel of the configuration, "unset" when absent
  toolOutput,    \* what the command's stdout holds, as the caller parses it
  proc,          \* the child process: [state, kills, events]
  stdout,        \* length of the accumulated stdout string
  stderr,        \* length of the accumulated stderr string
  killed,        \* the killed flag
  timer,         \* "armed", "fired" or "cleared"
  promise,       \* the promise spawnCommand returned
  rejectCalls,   \* history: the reasons reject() has been called with
  checkResult,   \* <<>> or <<the CheckResult the calling check returned>>
  \* ---- secret scanner (checks/security.ts checkSecrets) ----
  unreadable,    \* the file-system calls that fail: a set of <<call, physical path>>
  patternFile,   \* config/patterns.json: "absent", "invalid" or <<the list it holds>>
  probe,         \* the lines of the file src/main.ts
  scan,          \* the checkSecrets call: [pc, found, scanned, listed, guarded, result]
  rescan,        \* <<>> or <<a second checkSecrets call in the same process>>
  \* ---- env files (checks/security.ts checkEnvFiles) ----
  envFiles,      \* the root-level .env* files that exist
  gitignore,     \* .gitignore: "absent", "unreadable" or <<its lines>>
  envResult,     \* <<>> or <<what checkEnvFiles returned>>
  \* ---- containment test (security.ts 459-463, tests.ts 130-132) ----
  guardPath,     \* the path handed to the test
  guardRoot,     \* the project root
  guardResult    \* <<>> or <<the outcome of the test>>

aggVars  == <<aggChecks, aggReport>>
orchVars == <<cfg, started, slot, outOfOrder, run>>
walkVars == <<visitedInodes, walk>>
procVars == <<caller, auditLevel, toolOutput, proc, stdout, stderr, killed, timer, promise,
              rejectCalls, checkResult>>
scanVars == <<unreadable, patternFile, probe, scan, rescan>>
envVars  == <<envFiles, gitignore, envResult>>
guardVars == <<guardPath, guardRoot, guardResult>>
moreVars == <<scanVars, envVars, guardVars>>
vars     == <<aggVars, orchVars, walkVars, procVars, moreVars>>

Statuses == {"pass", "warn", "fail", "skip"}

\* the status and severity fields of a CheckResult
Result(st, sev) == [status |-> st, severity |-> sev]

(***************************************************************************)
(* Aggregation: validators.ts                                              *)
(***************************************************************************)

\* Array.prototype.filter(...).length on the status field
RECURSIVE CountStatus(_, _)
CountStatus(checks, st) ==
  IF checks = <<>> THEN 0
  ELSE (IF Head(checks).status = st THEN 1 ELSE 0) + CountStatus(Tail(checks), st)

\* Array.prototype.some on the status field
RECURSIVE SomeStatus(_, _)
SomeStatus(checks, st) ==
  IF checks = <<>> THEN FALSE
  ELSE Head(checks).status = st \/ SomeStatus(Tail(checks), st)

\* Array.prototype.every on the status field (true of the empty array)
RECURSIVE EveryStatus(_, _)
EveryStatus(checks, st) ==
  IF checks = <<>> THEN TRUE
  ELSE Head(checks).status = st /\ EveryStatus(Tail(checks), st)

\* faulty variant: the failed checks are counted among the warnings as well
calculateSummary_FailAsWarning(checks) ==
  [ total    |-> Len(checks),
    passed   |-> CountStatus(checks, "pass"),
    warnings |-> CountStatus(checks, "warn") + CountStatus(checks, "fail"),
    failed   |-> CountStatus(checks, "fail"),
    skipped  |-> CountStatus(checks, "skip") ]

\* validators.ts 70-78
calculateSummary(checks) ==
  [ total    |-> Len(checks),
    passed   |-> CountStatus(checks, "pass"),
    warnings |-> CountStatus(checks, "warn"),
    failed   |-> CountStatus(checks, "fail"),
    skipped  |-> CountStatus(checks, "skip") ]

\* faulty variant: the warn test placed before the fail test
determineOverallStatus_WarnFirst(checks) ==
  IF SomeStatus(checks, "warn") THEN "warn"
  ELSE IF SomeStatus(checks, "fail") THEN "fail"
  ELSE IF EveryStatus(checks, "skip") THEN "skip"
  ELSE "pass"

\* validators.ts 83-88
determineOverallStatus(checks) ==
  IF SomeStatus(checks, "fail") THEN "fail"
  ELSE IF SomeStatus(checks, "warn") THEN "warn"
  ELSE IF EveryStatus(checks, "skip") THEN "skip"
  ELSE "pass"

\* validators.ts 27-38: the report object (timestamp, projectType and
\* executionTime carry no information the claims read)
BuildReport(checks) ==
  [ overallStatus |-> determineOverallStatus(checks),
    summary       |-> calculateSummary(checks),
    checks        |-> checks ]

MaxChecks == 4

RECURSIVE ResultLists(_)
ResultLists(n) ==
  IF n = 0 THEN {<<>>}
  ELSE LET shorter == ResultLists(n - 1)
       IN shorter \cup
          { Append(l, [name |-> "c", status |-> st]) :
              l \in {x \in shorter : Len(x) = n - 1}, st \in Statuses }

AggInit ==
  /\ aggChecks \in ResultLists(MaxChecks)
  /\ aggReport = <<>>

AggIdle ==
  /\ aggChecks = <<>>
  /\ aggReport = <<>>

Aggregate ==
  /\ aggReport = <<>>
  /\ aggReport' = <<BuildReport(aggChecks)>>
  /\ UNCHANGED <<moreVars, aggChecks, orchVars, walkVars, procVars>>

(***************************************************************************)
(* Orchestration: validators.ts runValidation, checks/security.ts,         *)
(* checks/quality.ts, checks/docker.ts, checks/tests.ts                    *)
(***************************************************************************)

\* checks/security.ts 100-111, in declaration order
SecurityChecks ==
  << "npm audit", "secrets scan", "env files", "licenses", "publish safety",
     "lockfile", "npm scripts", "publish dry-run", "sbom", "typosquatting" >>

\* checks/quality.ts 7-12
QualityChecks ==
  << "unused dependencies", "duplicate dependencies", "outdated dependencies",
     "peer dependencies" >>

\* checks/docker.ts 9-20: hasDockerfile is the constant false, one skip result
DockerChecks == << "docker" >>

\* checks/tests.ts 11
TestChecks == << "tests", "build" >>

Groups == << SecurityChecks, QualityChecks, DockerChecks, TestChecks >>

\* faulty variant: the groups spread in another order
AllChecks_QualityFirst(sec, qual, dock, test) == qual \o sec \o dock \o test

\* validators.ts 25: [...securityResults, ...qualityResults, ...dockerResults, ...testResults]
AllChecks(sec, qual, dock, test) == sec \o qual \o dock \o test

Declared == SecurityChecks \o QualityChecks \o DockerChecks \o TestChecks

Range(s) == { s[i] : i \in 1..Len(s) }

\* runValidation(config = {}): every optional field absent
DefaultConfig ==
  [ checkSecrets |-> TRUE, allowedLicenses |-> FALSE, publishDryRun |-> FALSE,
    generateSbom |-> FALSE, checkRegistry |-> FALSE, checkUnused |-> TRUE,
    checkDuplicates |-> TRUE, checkOutdated |-> TRUE, testsRun |-> TRUE ]

\* a configuration that turns the optional subprocess checks on and the
\* switchable ones off
OptionalConfig ==
  [ checkSecrets |-> FALSE, allowedLicenses |-> TRUE, publishDryRun |-> TRUE,
    generateSbom |-> TRUE, checkRegistry |-> FALSE, checkUnused |-> FALSE,
    checkDuplicates |-> FALSE, checkOutdated |-> FALSE, testsRun |-> FALSE ]

Configs == { DefaultConfig, OptionalConfig }

\* What a check can have settled to when its call returns, i.e. before its
\* first await: a status it returns, or "throw" when an exception leaves it.
SyncOutcomes(c, config) ==
  CASE c = "npm audit"       -> {}
    [] c = "secrets scan"    -> IF config.checkSecrets THEN {"skip", "pass", "warn", "fail"}
                                ELSE {"skip"}
    \* readFileSync(".gitignore") at security.ts 661 is outside any try block
    [] c = "env files"       -> {"pass", "warn", "fail", "throw"}
    [] c = "licenses"        -> IF config.allowedLicenses THEN {"fail", "warn", "pass"}
                                ELSE {"skip"}
    [] c = "publish safety"  -> {"skip", "pass", "warn", "fail"}
    [] c = "lockfile"        -> {"warn", "pass"}
    [] c = "npm scripts"     -> {"skip", "warn", "pass", "fail"}
    [] c = "publish dry-run" -> IF config.publishDryRun THEN {} ELSE {"skip"}
    \* mkdirSync failing before the await is caught at security.ts 982
    [] c = "sbom"            -> IF config.generateSbom THEN {"warn"} ELSE {"skip"}
    [] c = "typosquatting"   -> IF config.checkRegistry THEN {"skip", "warn"} ELSE {"skip"}
    [] c = "unused dependencies"    -> IF config.checkUnused THEN {"pass"} ELSE {"skip"}
    [] c = "duplicate dependencies" -> IF config.checkDuplicates THEN {"pass"} ELSE {"skip"}
    [] c = "outdated dependencies"  -> IF config.checkOutdated THEN {"pass"} ELSE {"skip"}
    [] c = "peer dependencies"      -> {"pass"}
    [] c = "docker"          -> {"skip"}
    [] c = "tests"           -> IF config.testsRun THEN {} ELSE {"skip"}
    [] c = "build"           -> {}

\* What a check can settle to after it has suspended at an await.
AsyncOutcomes(c, config) ==
  CASE c = "npm audit"       -> {"pass", "warn", "fail"}
    [] c = "publish dry-run" -> IF config.publishDryRun THEN {"pass", "warn"} ELSE {}
    [] c = "sbom"            -> IF config.generateSbom THEN {"pass", "warn"} ELSE {}
    [] c = "typosquatting"   -> IF config.checkRegistry THEN {"pass", "warn"} ELSE {}
    \* tests.ts 44: pkg.scripts on a package.json holding null is outside the try
    [] c = "tests"           -> IF config.testsRun THEN {"warn", "pass", "throw"} ELSE {}
    [] c = "build"           -> {"pass", "warn"}
    [] OTHER                 -> {}

\* Promise.all over one group: rejected as soon as one member has rejected,
\* fulfilled when every member is, with the values at the members' positions
GroupRejected(g) == \E i \in 1..Len(g) : slot[g[i]] = "throw"
GroupResolved(g) == \A i \in 1..Len(g) : slot[g[i]] \in Statuses
GroupValue(g)    == [ i \in 1..Len(g) |-> [name |-> g[i], status |-> slot[g[i]]] ]

OrchInit ==
  /\ cfg \in Configs
  /\ started = 0
  /\ slot = [c \in Range(Declared) |-> "idle"]
  /\ outOfOrder = FALSE
  /\ run = [state |-> "idle", report |-> "none"]

OrchIdle ==
  /\ cfg = DefaultConfig
  /\ started = 0
  /\ slot = [c \in Range(Declared) |-> "idle"]
  /\ outOfOrder = FALSE
  /\ run = [state |-> "idle", report |-> "none"]

\* validators.ts 17-22 with security.ts 100-111 etc.: the checks are called one
\* after the other in declaration order, each running up to its first await,
\* before runValidation itself suspends.
StartCheck ==
  /\ started < Len(Declared)
  /\ LET c == Declared[started + 1] IN
       \/ \E o \in SyncOutcomes(c, cfg) : slot' = [slot EXCEPT ![c] = o]
       \/ /\ AsyncOutcomes(c, cfg) # {}
          /\ slot' = [slot EXCEPT ![c] = "pending"]
  /\ started' = started + 1
  /\ run' = IF started + 1 = Len(Declared)
            THEN [state |-> "awaiting", report |-> "none"]
            ELSE [state |-> "starting", report |-> "none"]
  /\ UNCHANGED <<cfg, outOfOrder, moreVars, aggVars, walkVars, procVars>>

\* a suspended check settles; nothing cancels it, also not after runValidation
\* has rejected
CompleteCheck(c) ==
  /\ started = Len(Declared)
  /\ slot[c] = "pending"
  /\ \E o \in AsyncOutcomes(c, cfg) : slot' = [slot EXCEPT ![c] = o]
  /\ outOfOrder' = ( outOfOrder \/
       \E i, j \in 1..Len(Declared) :
          i < j /\ Declared[j] = c /\ slot[Declared[i]] = "pending" )
  /\ UNCHANGED <<cfg, started, run, moreVars, aggVars, walkVars, procVars>>

\* validators.ts 17-40: the await of Promise.all continues
SettleRun ==
  /\ run.state = "awaiting"
  /\ \/ /\ \E k \in 1..Len(Groups) : GroupRejected(Groups[k])
        /\ run' = [state |-> "rejected", report |-> "none"]
     \/ /\ \A k \in 1..Len(Groups) : GroupResolved(Groups[k])
        /\ run' = [ state  |-> "resolved",
                    report |-> BuildReport(AllChecks(GroupValue(SecurityChecks),
                                                     GroupValue(QualityChecks),
                                                     GroupValue(DockerChecks),
                                                     GroupValue(TestChecks))) ]
  /\ UNCHANGED <<cfg, started, slot, outOfOrder, moreVars, aggVars, walkVars, procVars>>

(***************************************************************************)
(* The file system the traversals run on.  A name is a sequence of string  *)
(* pieces (".cache" is <<".", "cache">>), a path a sequence of names, and  *)
(* the string of a path the pieces of its names joined by "/": startsWith, *)
(* endsWith and replace on strings are prefix, suffix and cut on pieces.   *)
(***************************************************************************)

Root == << <<"proj">> >>                      \* tests.ts 5: process.cwd()

File(n)        == [type |-> "file",    ino |-> n, entries |-> <<>>, target |-> <<>>]
Dir(n, names)  == [type |-> "dir",     ino |-> n, entries |-> names, target |-> <<>>]
Symlink(n, to) == [type |-> "symlink", ino |-> n, entries |-> <<>>, target |-> to]

\* The fixture, by physical path:
\*   /proj/test/{a.test.ts, unit/{b.spec.js, notes.txt}, .cache/c.test.ts,
\*               node_modules/d.test.ts, out -> /ext}
\*   /proj/tests -> /ext/shared           (a start directory that is a symlink)
\*   /proj/src/{f.test.ts, main.ts, .hidden.spec.ts,
\*              core/scanner.ts, core-utils/helper.ts, .cfg/s.json,
\*              node_modules/m.js, big.json,
\*              dir1/{link -> /proj/src/dir2, p.test.ts},
\*              dir2/{link -> /proj/src/dir1, q.ts},
\*              deep/{n1/{n2/{... n10/{t.test.ts} ..., t.test.ts}, t.test.ts}}
\*   /ext/{g.test.ts, shared/e.test.ts}   (outside the project)
\* deep is a chain of MAX_DEPTH + 1 directories, each holding the next one
\* and, after it, a file t.test.ts.
SrcDir == << <<"proj">>, <<"src">> >>

ChainLen == 11

ChainName(k) == IF k = 1 THEN <<"deep">> ELSE <<"n", ToString(k - 1)>>

ChainPath(k) == SrcDir \o [i \in 1..k |-> ChainName(i)]

ChainFile(k) == Append(ChainPath(k), <<"t", ".test", ".ts">>)

FsTree ==
     << <<"proj">> >> :>
        Dir(1, << <<"test">>, <<"test", "s">>, <<"src">> >>)
  @@ << <<"proj">>, <<"test">> >> :>
        Dir(2, << <<"a", ".test", ".ts">>, <<"unit">>, <<".", "cache">>,
                  <<"node_modules">>, <<"out">> >>)
  @@ << <<"proj">>, <<"test">>, <<"a", ".test", ".ts">> >> :> File(3)
  @@ << <<"proj">>, <<"test">>, <<"unit">> >> :>
        Dir(4, << <<"b", ".spec", ".js">>, <<"notes", ".txt">> >>)
  @@ << <<"proj">>, <<"test">>, <<"unit">>, <<"b", ".spec", ".js">> >> :> File(5)
  @@ << <<"proj">>, <<"test">>, <<"unit">>, <<"notes", ".txt">> >> :> File(6)
  @@ << <<"proj">>, <<"test">>, <<".", "cache">> >> :>
        Dir(7, << <<"c", ".test", ".ts">> >>)
  @@ << <<"proj">>, <<"test">>, <<".", "cache">>, <<"c", ".test", ".ts">> >> :> File(8)
  @@ << <<"proj">>, <<"test">>, <<"node_modules">> >> :>
        Dir(9, << <<"d", ".test", ".ts">> >>)
  @@ << <<"proj">>, <<"test">>, <<"node_modules">>, <<"d", ".test", ".ts">> >> :> File(10)
  @@ << <<"proj">>, <<"test">>, <<"out">> >> :> Symlink(11, << <<"ext">> >>)
  @@ << <<"proj">>, <<"test", "s">> >> :> Symlink(12, << <<"ext">>, <<"shared">> >>)
  @@ << <<"proj">>, <<"src">> >> :>
        Dir(13, << <<"f", ".test", ".ts">>, <<"main", ".ts">>,
                   <<".", "hidden", ".spec", ".ts">>, <<"core">>, <<"core", "-utils">>,
                   <<".", "cfg">>, <<"node_modules">>, <<"big", ".json">>,
                   <<"dir1">>, <<"dir2">>, <<"deep">> >>)
  @@ << <<"proj">>, <<"src">>, <<"big", ".json">> >> :> File(35)
  @@ << <<"proj">>, <<"src">>, <<".", "hidden", ".spec", ".ts">> >> :> File(20)
  @@ << <<"proj">>, <<"src">>, <<"core">> >> :> Dir(21, << <<"scanner", ".ts">> >>)
  @@ << <<"proj">>, <<"src">>, <<"core">>, <<"scanner", ".ts">> >> :> File(22)
  @@ << <<"proj">>, <<"src">>, <<"core", "-utils">> >> :> Dir(23, << <<"helper", ".ts">> >>)
  @@ << <<"proj">>, <<"src">>, <<"core", "-utils">>, <<"helper", ".ts">> >> :> File(24)
  @@ << <<"proj">>, <<"src">>, <<".", "cfg">> >> :> Dir(25, << <<"s", ".json">> >>)
  @@ << <<"proj">>, <<"src">>, <<".", "cfg">>, <<"s", ".json">> >> :> File(26)
  @@ << <<"proj">>, <<"src">>, <<"node_modules">> >> :> Dir(27, << <<"m", ".js">> >>)
  @@ << <<"proj">>, <<"src">>, <<"node_modules">>, <<"m", ".js">> >> :> File(28)
  @@ << <<"proj">>, <<"src">>, <<"dir1">> >> :>
        Dir(29, << <<"link">>, <<"p", ".test", ".ts">> >>)
  @@ << <<"proj">>, <<"src">>, <<"dir1">>, <<"link">> >> :>
        Symlink(30, << <<"proj">>, <<"src">>, <<"dir2">> >>)
  @@ << <<"proj">>, <<"src">>, <<"dir1">>, <<"p", ".test", ".ts">> >> :> File(31)
  @@ << <<"proj">>, <<"src">>, <<"dir2">> >> :>
        Dir(32, << <<"link">>, <<"q", ".ts">> >>)
  @@ << <<"proj">>, <<"src">>, <<"dir2">>, <<"link">> >> :>
        Symlink(33, << <<"proj">>, <<"src">>, <<"dir1">> >>)
  @@ << <<"proj">>, <<"src">>, <<"dir2">>, <<"q", ".ts">> >> :> File(34)
  @@ [ p \in { ChainPath(k) : k \in 1..ChainLen } |->
         Dir(100 + Len(p) - Len(SrcDir),
             IF Len(p) - Len(SrcDir) < ChainLen
               THEN << ChainName(Len(p) - Len(SrcDir) + 1), <<"t", ".test", ".ts">> >>
               ELSE << <<"t", ".test", ".ts">> >>) ]
  @@ [ p \in { ChainFile(k) : k \in 1..ChainLen } |->
         File(200 + Len(p) - Len(SrcDir)) ]
  @@ << <<"proj">>, <<"src">>, <<"f", ".test", ".ts">> >> :> File(14)
  @@ << <<"proj">>, <<"src">>, <<"main", ".ts">> >> :> File(15)
  @@ << <<"ext">> >> :> Dir(16, << <<"g", ".test", ".ts">>, <<"shared">> >>)
  @@ << <<"ext">>, <<"g", ".test", ".ts">> >> :> File(17)
  @@ << <<"ext">>, <<"shared">> >> :> Dir(18, << <<"e", ".test", ".ts">> >>)
  @@ << <<"ext">>, <<"shared">>, <<"e", ".test", ".ts">> >> :> File(19)

NoPath == << <<"ENOENT">> >>

\* how many symbolic links one path lookup follows before it fails (ELOOP)
MaxSymlinkHops == 3

\* the physical path a path names, every symbolic link on it followed
RECURSIVE Real(_, _, _)
Real(done, rest, fuel) ==
  IF rest = <<>> THEN done
  ELSE LET next == Append(done, Head(rest)) IN
    IF next \notin DOMAIN FsTree THEN NoPath
    ELSE IF FsTree[next].type = "symlink"
      THEN IF fuel = 0 THEN NoPath
           ELSE Real(<<>>, FsTree[next].target \o Tail(rest), fuel - 1)
    ELSE IF Tail(rest) # <<>> /\ FsTree[next].type # "dir" THEN NoPath
    ELSE Real(next, Tail(rest), fuel)

RealPath(p) == Real(<<>>, p, MaxSymlinkHops)

\* the call fails on the file or directory the path leads to: permissions and
\* I/O errors belong to the physical object
Fails(call, r) == <<call, r>> \in unreadable

\* fs.promises.stat, fs.statSync: follows symbolic links
Stat(p) ==
  LET r == RealPath(p) IN
    IF r = NoPath \/ Fails("stat", r) THEN [err |-> TRUE, type |-> "none", ino |-> 0]
    ELSE [err |-> FALSE, type |-> FsTree[r].type, ino |-> FsTree[r].ino]

\* fs.promises.readdir, fs.readdirSync (withFileTypes): the directory the path
\* leads to, each entry with the type of the entry itself (a link is a link)
Readdir(p) ==
  LET r == RealPath(p) IN
    IF r = NoPath \/ FsTree[r].type # "dir" \/ Fails("readdir", r)
      THEN [err |-> TRUE, entries |-> <<>>]
    ELSE [ err     |-> FALSE,
           entries |-> [ i \in 1..Len(FsTree[r].entries) |->
                          [ name |-> FsTree[r].entries[i],
                            type |-> FsTree[Append(r, FsTree[r].entries[i])].type ] ] ]

\* the string of an absolute path, as pieces
RECURSIVE PathString(_)
PathString(p) ==
  IF p = <<>> THEN <<>> ELSE <<"/">> \o Head(p) \o PathString(Tail(p))

\* String.prototype.startsWith
StartsWith(str, prefix) ==
  Len(str) >= Len(prefix) /\ SubSeq(str, 1, Len(prefix)) = prefix

\* path.resolve on an absolute path: "." and ".." segments folded away
RECURSIVE Resolve(_, _)
Resolve(done, rest) ==
  IF rest = <<>> THEN done
  ELSE IF Head(rest) = <<".">> THEN Resolve(done, Tail(rest))
  ELSE IF Head(rest) = <<"..">>
    THEN Resolve(IF done = <<>> THEN <<>> ELSE SubSeq(done, 1, Len(done) - 1), Tail(rest))
  ELSE Resolve(Append(done, Head(rest)), Tail(rest))

PathResolve(p) == Resolve(<<>>, p)

(***************************************************************************)
(* checks/tests.ts: findTestFiles and walkAndCollect                       *)
(***************************************************************************)

MAX_DEPTH == 10                                          \* tests.ts 102

StartDirs == << <<"test">>, <<"test", "s">>, <<"src">> >>  \* tests.ts 47

\* tests.ts 84: /(\.test\.ts$|\.spec\.ts$|\.test\.js$|\.spec\.js$)/i
TestFileRe(name) ==
  /\ Len(name) >= 2
  /\ SubSeq(name, Len(name) - 1, Len(name)) \in
       { <<".test", ".ts">>, <<".spec", ".ts">>, <<".test", ".js">>, <<".spec", ".js">> }

\* tests.ts 164-167: full.replace(root, "").replace(/^[\\\/]/, "")
RelativePath(full) ==
  LET str  == PathString(full)
      rt   == PathString(Root)
      cut  == IF StartsWith(str, rt) THEN SubSeq(str, Len(rt) + 1, Len(str)) ELSE str
  IN IF cut # <<>> /\ Head(cut) = "/" THEN Tail(cut) ELSE cut

Top(m)  == m.stack[Len(m.stack)]
Pop(m)  == [m EXCEPT !.stack = SubSeq(@, 1, Len(@) - 1)]
SetTop(m, f) == [m EXCEPT !.stack[Len(m.stack)] = f]

\* One traversal invocation runs, without suspending, from the completion of
\* one file-system call to the issue of the next.  m is the invocation's
\* state joined with the visited set it reads and writes.
RECURSIVE NextStart(_), Enter(_, _, _), Return(_), ContinueLoop(_)

\* tests.ts 86-95: the loop over dirs in findTestFiles
NextStart(m) ==
  IF m.next > Len(StartDirs) THEN [m EXCEPT !.pc = "done"]
  ELSE Enter([m EXCEPT !.next = @ + 1], Append(Root, StartDirs[m.next]), 0)

\* a depth test that lets one more level through
Enter_OneLevelMore(m, dir, depth) ==
  IF depth > MAX_DEPTH + 1 THEN Return([m EXCEPT !.truncated = @ \cup {dir}])
  ELSE [m EXCEPT !.stack = Append(@, [ dir |-> dir, depth |-> depth, pc |-> "stat",
                                       inode |-> 0, entries |-> <<>> ])]

\* tests.ts 105-114: walkAndCollect up to its await of stat
Enter(m, dir, depth) ==
  IF depth > MAX_DEPTH THEN Return([m EXCEPT !.truncated = @ \cup {dir}])
  ELSE [m EXCEPT !.stack = Append(@, [ dir |-> dir, depth |-> depth, pc |-> "stat",
                                       inode |-> 0, entries |-> <<>> ])]

\* a walkAndCollect call has returned: its caller goes on
Return(m) ==
  IF m.stack = <<>> THEN NextStart(m) ELSE ContinueLoop(m)

\* a loop that takes a link to a directory for a directory
ContinueLoop_LinksAsDirectories(m) ==
  LET f == Top(m) IN
    IF f.entries = <<>>
      THEN Return(Pop([m EXCEPT !.vis = @ \ {f.inode}]))
    ELSE
      LET e    == Head(f.entries)
          m1   == SetTop(m, [f EXCEPT !.entries = Tail(@)])
          full == Append(f.dir, e.name)
      IN IF e.type = "dir" \/ (e.type = "symlink" /\ Stat(full).type = "dir")
           THEN IF e.name = <<"node_modules">> \/ Head(e.name) = "."
                  THEN ContinueLoop(m1)
                  ELSE Enter(m1, full, f.depth + 1)
         ELSE IF e.type = "file" /\ TestFileRe(e.name)
           THEN ContinueLoop([m1 EXCEPT !.out = Append(@, RelativePath(full)),
                                        !.emitted = @ \cup {full}])
         ELSE ContinueLoop(m1)

\* tests.ts 145-178: the loop over the entries, up to the next suspension
ContinueLoop(m) ==
  LET f == Top(m) IN
    IF f.entries = <<>>
      THEN Return(Pop([m EXCEPT !.vis = @ \ {f.inode}]))
    ELSE
      LET e    == Head(f.entries)
          m1   == SetTop(m, [f EXCEPT !.entries = Tail(@)])
          full == Append(f.dir, e.name)
      IN IF e.type = "symlink" THEN ContinueLoop(m1)
         ELSE IF e.type = "dir"
           THEN IF e.name = <<"node_modules">> \/ Head(e.name) = "."
                  THEN ContinueLoop(m1)
                  ELSE Enter(m1, full, f.depth + 1)
         ELSE IF e.type = "file" /\ TestFileRe(e.name)
           THEN ContinueLoop([m1 EXCEPT !.out = Append(@, RelativePath(full)),
                                        !.emitted = @ \cup {full}])
         ELSE ContinueLoop(m1)

\* tests.ts 112-143: the await of stat has completed
AfterStat(m0) ==
  LET m == [m0 EXCEPT !.stats = @ + 1]
      f == Top(m)
      s == Stat(f.dir)
  IN IF s.err \/ s.type # "dir" THEN Return(Pop(m))
     ELSE IF s.ino \in m.vis
       THEN Return(Pop([m EXCEPT !.cycles = @ \cup {f.dir}]))
     ELSE
       LET m1 == [m EXCEPT !.vis = @ \cup {s.ino}] IN
         IF ~StartsWith(PathString(PathResolve(f.dir)), PathString(PathResolve(Root)))
           THEN Return(Pop(m1))
           ELSE SetTop(m1, [f EXCEPT !.pc = "readdir", !.inode = s.ino])

\* tests.ts 137-145: the await of readdir has completed
AfterReaddir(m) ==
  LET f == Top(m)
      r == Readdir(f.dir)
      v == [m EXCEPT !.visits = Append(@, RealPath(f.dir))]
  IN IF r.err THEN Return(Pop(v))
     ELSE ContinueLoop(SetTop([v EXCEPT !.listed = @ \cup {f.dir}],
                              [f EXCEPT !.pc = "loop", !.entries = r.entries]))

\* how many traversal invocations are in flight at once
NumTraversals == 2

Traversals == 1..NumTraversals

IdleWalk ==
  [ pc |-> "idle", next |-> 1, stack |-> <<>>, out |-> <<>>,
    emitted |-> {}, listed |-> {}, cycles |-> {}, truncated |-> {},
    stats |-> 0, visits |-> <<>> ]

Joined(w, vis) ==
  [ pc |-> w.pc, next |-> w.next, stack |-> w.stack, out |-> w.out,
    emitted |-> w.emitted, listed |-> w.listed, cycles |-> w.cycles,
    truncated |-> w.truncated, stats |-> w.stats,
    visits |-> w.visits, vis |-> vis ]

Local(m) ==
  [ pc |-> m.pc, next |-> m.next, stack |-> m.stack, out |-> m.out,
    emitted |-> m.emitted, listed |-> m.listed, cycles |-> m.cycles,
    truncated |-> m.truncated, stats |-> m.stats, visits |-> m.visits ]

WalkInit ==
  /\ visitedInodes = {}
  /\ walk = [t \in Traversals |-> IdleWalk]

\* tests.ts 47: checkTestScript calls findTestFiles
FindTestFiles(t) ==
  /\ walk[t].pc = "idle"
  /\ LET m == NextStart(Joined([walk[t] EXCEPT !.pc = "run"], visitedInodes)) IN
       /\ walk' = [walk EXCEPT ![t] = Local(m)]
       /\ visitedInodes' = m.vis
  /\ UNCHANGED <<moreVars, aggVars, orchVars, procVars>>

StatDone(t) ==
  /\ walk[t].pc = "run"
  /\ walk[t].stack # <<>>
  /\ Top(walk[t]).pc = "stat"
  /\ LET m == AfterStat(Joined(walk[t], visitedInodes)) IN
       /\ walk' = [walk EXCEPT ![t] = Local(m)]
       /\ visitedInodes' = m.vis
  /\ UNCHANGED <<moreVars, aggVars, orchVars, procVars>>

ReaddirDone(t) ==
  /\ walk[t].pc = "run"
  /\ walk[t].stack # <<>>
  /\ Top(walk[t]).pc = "readdir"
  /\ LET m == AfterReaddir(Joined(walk[t], visitedInodes)) IN
       /\ walk' = [walk EXCEPT ![t] = Local(m)]
       /\ visitedInodes' = m.vis
  /\ UNCHANGED <<moreVars, aggVars, orchVars, procVars>>

\* the same invocation run from start to end with nothing else running
RECURSIVE RunAlone(_)
RunAlone(m) ==
  IF m.pc = "done" THEN m
  ELSE IF Top(m).pc = "stat" THEN RunAlone(AfterStat(m))
  ELSE RunAlone(AfterReaddir(m))

Alone == RunAlone(NextStart(Joined([IdleWalk EXCEPT !.pc = "run"], {})))


(***************************************************************************)
(* checks/security.ts: the secret scanner.  A line is a sequence of tokens *)
(* [c, n]: n characters of the kind c (a literal word, a run of            *)
(* alphanumerics, of blanks, of slashes).  A pattern is a sequence of      *)
(* elements [atom, min, max, bounded]: an atom and its quantifier.         *)
(***************************************************************************)

Tok(c, n) == [c |-> c, n |-> n]

El(atom, min, max) == [atom |-> atom, min |-> min, max |-> max, bounded |-> TRUE]
Lit(word)  == El(word, 1, 1)
Opt(atom)  == El(atom, 0, 1)                                        \* atom?
Star(atom) == [atom |-> atom, min |-> 0, max |-> 0, bounded |-> FALSE]  \* atom*
Plus(atom) == [atom |-> atom, min |-> 1, max |-> 0, bounded |-> FALSE]  \* atom+

\* security.ts 420-430: the built-in patterns
DefaultPatterns ==
  << [ name |-> "AWS Access Key",
       regex |-> << Lit("AKIA"), El("[0-9A-Z]", 16, 16) >> ],
     [ name |-> "AWS Secret Key",
       regex |-> << Lit("aws_secret_access_key"), Star("\\s"), Lit("[=:]"), Star("\\s"),
                    Opt("['\"]"), El("[A-Za-z0-9/+=]", 40, 40), Opt("['\"]") >> ],
     [ name |-> "Stripe Live Key",
       regex |-> << Lit("sk_live_"), El("[0-9a-zA-Z]", 24, 99) >> ],
     [ name |-> "Google API Key",
       regex |-> << Lit("AIza"), El("[0-9A-Za-z\\-_]", 35, 35) >> ],
     [ name |-> "GitHub PAT",
       regex |-> << Lit("ghp_"), El("[0-9a-zA-Z]", 36, 36) >> ],
     [ name |-> "GitHub PAT (alt)",
       regex |-> << Lit("github_pat_"), El("[0-9a-zA-Z]", 22, 22), Lit("_"),
                    El("[0-9a-zA-Z]", 59, 59) >> ],
     [ name |-> "Bearer Token",
       regex |-> << Lit("Bearer"), Plus("\\s"), El("[A-Za-z0-9\\-._~+/]", 10, 500) >> ],
     [ name |-> "JWT Token",
       regex |-> << Lit("eyJ"), El("[A-Za-z0-9_-]", 10, 500), Lit("\\."),
                    El("[A-Za-z0-9_-]", 10, 500), Lit("\\."),
                    El("[A-Za-z0-9_-]", 10, 500) >> ] >>

\* pattern lists a project may keep in config/patterns.json
BoundedList ==
  << [ name |-> "Internal Token", regex |-> << Lit("tok_"), El("[0-9A-Z]", 16, 32) >> ] >>
UnboundedList ==
  << [ name |-> "Internal Token", regex |-> << Lit("tok_"), Plus("[0-9A-Z]") >> ],
     [ name |-> "AWS Access Key", regex |-> << Lit("AKIA"), El("[0-9A-Z]", 16, 16) >> ] >>

PatternFiles ==
  { [state |-> "absent",  list |-> <<>>],
    [state |-> "invalid", list |-> <<>>],      \* unreadable, not JSON, not a list
    [state |-> "list",    list |-> BoundedList],
    [state |-> "list",    list |-> UnboundedList] }

\* security.ts 403-433: the list of the file as it is, or the built-in one
loadPatterns(file) ==
  IF file.state = "list" THEN file.list ELSE DefaultPatterns

\* the kinds of token an atom takes (every pattern carries the i flag)
Takes(atom, c) ==
  CASE atom \in { "[0-9A-Z]", "[0-9a-zA-Z]", "[A-Za-z0-9/+=]", "[0-9A-Za-z\\-_]",
                  "[A-Za-z0-9\\-._~+/]", "[A-Za-z0-9_-]" } -> c = "alnum"
    [] atom = "\\s"    -> c = "ws"
    [] atom = "[=:]"   -> c \in {"=", ":"}
    [] atom = "['\"]"  -> c = "quote"
    [] atom = "\\."    -> c = "."
    [] OTHER           -> c = atom

\* one element against one token; the last element of a pattern may stop
\* inside a longer run
Fits(e, tok, last) ==
  /\ Takes(e.atom, tok.c)
  /\ tok.n >= e.min
  /\ tok.n >= 1
  /\ last \/ ~e.bounded \/ tok.n <= e.max

RECURSIVE MatchHere(_, _)
MatchHere(regex, toks) ==
  IF regex = <<>> THEN TRUE
  ELSE \/ Head(regex).min = 0 /\ MatchHere(Tail(regex), toks)
       \/ /\ toks # <<>>
          /\ Fits(Head(regex), Head(toks), Len(regex) = 1)
          /\ MatchHere(Tail(regex), Tail(toks))

\* RegExp.prototype.test: a match anywhere in the line
Test(regex, line) ==
  \E i \in 1..(Len(line) + 1) : MatchHere(regex, SubSeq(line, i, Len(line)))

\* String.prototype.trim
RECURSIVE TrimStart(_), TrimEnd(_)
TrimStart(line) ==
  IF line # <<>> /\ Head(line).c = "ws" THEN TrimStart(Tail(line)) ELSE line
TrimEnd(line) ==
  IF line # <<>> /\ line[Len(line)].c = "ws"
    THEN TrimEnd(SubSeq(line, 1, Len(line) - 1)) ELSE line
Trim(line) == TrimEnd(TrimStart(line))

Includes(line, word) == \E i \in 1..Len(line) : line[i].c = word

RECURSIVE CountChars(_, _)
CountChars(line, c) ==
  IF line = <<>> THEN 0
  ELSE (IF Head(line).c = c THEN Head(line).n ELSE 0) + CountChars(Tail(line), c)

\* security.ts 597-604: the lines that are never reported
Suppressed(trimmed) ==
  \/ trimmed # <<>> /\ Head(trimmed).c = "/" /\ Head(trimmed).n >= 2
  \/ trimmed # <<>> /\ Head(trimmed).c = "#"
  \/ trimmed # <<>> /\ Head(trimmed).c = "*"
  \/ Includes(trimmed, "example")
  \/ Includes(trimmed, "placeholder")
  \/ Includes(trimmed, "TODO")
  \/ Includes(trimmed, "FIXME")

\* faulty variant: one slash on the line is taken for a regex literal
LooksLikeDefinition_AnySlash(trimmed) ==
  \/ Includes(trimmed, "pattern")
  \/ Includes(trimmed, "new RegExp(")
  \/ Includes(trimmed, "patterns")
  \/ CountChars(trimmed, "/") >= 1

\* security.ts 607-608:
\* /pattern\s*[:=]|new RegExp\(|const\s+patterns\b|let\s+patterns\b|var\s+patterns\b|\/.*\//
LooksLikeDefinition(trimmed) ==
  \/ Test(<< Lit("pattern"), Star("\\s"), Lit("[=:]") >>, trimmed)
  \/ Includes(trimmed, "new RegExp(")
  \/ Test(<< Lit("const"), Plus("\\s"), Lit("patterns") >>, trimmed)
  \/ Test(<< Lit("let"), Plus("\\s"), Lit("patterns") >>, trimmed)
  \/ Test(<< Lit("var"), Plus("\\s"), Lit("patterns") >>, trimmed)
  \/ CountChars(trimmed, "/") >= 2

\* the lines a source file may hold: blanks, a comment start (//, #, * or the
\* opening of a block comment), some code or the
\* start of a pattern definition, an access key literal of full or short
\* length, a placeholder marker, and what follows on the line
Starts  == { <<>>, << Tok("/", 2) >>, << Tok("#", 1) >>, << Tok("*", 1) >>,
             << Tok("ws", 2), Tok("/", 2) >>, << Tok("/", 1), Tok("*", 1) >> }
Heads   == { << Tok("code", 1) >>, << Tok("pattern", 1), Tok("ws", 1), Tok("=", 1) >> }
Keys    == { <<>>, << Tok("AKIA", 1), Tok("alnum", 16) >>,
             << Tok("AKIA", 1), Tok("alnum", 15) >> }
Markers == { <<>>, << Tok("example", 1) >>, << Tok("placeholder", 1) >>,
             << Tok("TODO", 1) >>, << Tok("FIXME", 1) >> }
Tails   == { <<>>, << Tok("/", 1) >>, << Tok("quote", 1), Tok("/", 2), Tok("code", 1) >>,
             << Tok("new RegExp(", 1) >> }

Lines ==
  { s \o h \o k \o m \o t :
      s \in Starts, h \in Heads, k \in Keys, m \in Markers, t \in Tails }

PlainLine   == << Tok("code", 1) >>
RealKeyLine == << Tok("code", 1), Tok("AKIA", 1), Tok("alnum", 16), Tok("quote", 1) >>
DefKeyLine  == << Tok("pattern", 1), Tok(":", 1), Tok("quote", 1), Tok("AKIA", 1),
                  Tok("alnum", 16), Tok("quote", 1) >>

\* how many lines the file src/main.ts holds at most
MaxLines == 2

RECURSIVE Contents(_)
Contents(n) ==
  IF n = 0 THEN { <<>> }
  ELSE IF n = 1 THEN { <<>> } \cup { << l >> : l \in Lines }
  ELSE Contents(n - 1) \cup
       { Append(c, l) : c \in { x \in Contents(n - 1) : Len(x) = n - 1 },
                        l \in { RealKeyLine, DefKeyLine } }

ProbeFile == Append(SrcDir, <<"main", ".ts">>)
BigFile   == Append(SrcDir, <<"big", ".json">>)

\* the files of the fixture that hold an access key
KeyFiles ==
  { SrcDir \o << <<"core">>, <<"scanner", ".ts">> >>,
    SrcDir \o << <<".", "cfg">>, <<"s", ".json">> >>,
    SrcDir \o << <<"node_modules">>, <<"m", ".js">> >>,
    BigFile }

\* src/dir2/q.ts holds a token of the project's own kind, which only a
\* pattern list of the project finds
TokenFile == SrcDir \o << <<"dir2">>, <<"q", ".ts">> >>
TokenLine == << Tok("code", 1), Tok("tok_", 1), Tok("alnum", 16) >>

\* content.split(/\r?\n/) of the file at a physical path
FileLines(r) ==
  IF r = ProbeFile THEN probe
  ELSE IF r \in KeyFiles THEN << PlainLine, RealKeyLine >>
  ELSE IF r = TokenFile THEN << PlainLine, TokenLine >>
  ELSE << PlainLine >>

MAX_FILE_SIZE == 10 * 1024 * 1024                       \* security.ts 571

\* stats.size
FileSize(r) == IF r = BigFile THEN MAX_FILE_SIZE + 1 ELSE 1024

\* security.ts 96: getProjectRoot()
ProjectRoot == Root

\* security.ts 611: filePath.replace(getProjectRoot(), "")
RelFile(filePath) ==
  LET str == PathString(filePath)
      rt  == PathString(ProjectRoot)
  IN IF StartsWith(str, rt) THEN SubSeq(str, Len(rt) + 1, Len(str)) ELSE str

\* security.ts 590-620: patterns.forEach over lines.forEach, one record for
\* every pattern and line that passes the tests
Matches(filePath, patterns, lines) ==
  LET pairs == [ k \in 1..(Len(patterns) * Len(lines)) |->
                   [ p |-> ((k - 1) \div Len(lines)) + 1,
                     l |-> ((k - 1) % Len(lines)) + 1 ] ]
      hits  == SelectSeq(pairs, LAMBDA x :
                 /\ Test(patterns[x.p].regex, lines[x.l])
                 /\ ~Suppressed(Trim(lines[x.l])))
  IN [ k \in 1..Len(hits) |->
         [ file         |-> RelFile(filePath),
           type         |-> patterns[hits[k].p].name,
           line         |-> hits[k].l,
           isDefinition |-> LooksLikeDefinition(Trim(lines[hits[k].l])) ] ]

\* faulty variant: the content is read whatever the size
scanFile_NoSizeTest(m, filePath, patterns) ==
  LET r  == RealPath(filePath)
      m1 == [m EXCEPT !.scanned = @ \cup {filePath}]
  IN IF Stat(filePath).err THEN m1
     ELSE IF Fails("read", r) THEN m1
     ELSE [m1 EXCEPT !.readFiles = @ \cup {filePath},
                     !.found = @ \o Matches(filePath, patterns, FileLines(r))]

\* security.ts 573-624; m is the state of one checkSecrets call
scanFile(m, filePath, patterns) ==
  LET r  == RealPath(filePath)
      m1 == [m EXCEPT !.scanned = @ \cup {filePath}]
  IN IF Stat(filePath).err THEN m1
     ELSE IF FileSize(r) > MAX_FILE_SIZE THEN m1
     ELSE IF Fails("read", r) THEN m1
     ELSE [m1 EXCEPT !.readFiles = @ \cup {filePath},
                     !.found = @ \o Matches(filePath, patterns, FileLines(r))]

\* security.ts 500: /\.(ts|js|jsx|tsx|json)$/
ScanFileRe(name) == name[Len(name)] \in {".ts", ".js", ".jsx", ".tsx", ".json"}

\* security.ts 439
excludeDirs == { SrcDir \o << <<"core">> >> }

\* security.ts 459-463 and 486, tests.ts 130-132: the containment test
Contained(path, root) ==
  StartsWith(PathString(PathResolve(path)), PathString(PathResolve(root)))

\* the order in which readdirSync hands over the entries of a directory is
\* the file system's: as listed in the fixture, or the other way round
Orders == { "listed", "reversed" }

Reverse(seq) == [ i \in 1..Len(seq) |-> seq[Len(seq) + 1 - i] ]

Ordered(order, entries) == IF order = "reversed" THEN Reverse(entries) ELSE entries

RECURSIVE scanDirectory(_, _, _), forEachEntry(_, _, _, _)

\* security.ts 458-474
scanDirectory(m, dir, patterns) ==
  IF ~Contained(dir, ProjectRoot) THEN m
  ELSE LET r  == Readdir(dir)
           m1 == [m EXCEPT !.guarded = @ \cup {dir}, !.visits = @ + 1]
       IN IF r.err THEN m1
          ELSE forEachEntry([m1 EXCEPT !.listed = @ \cup {dir}], dir,
                            Ordered(m.order, r.entries), patterns)

\* security.ts 476-503
forEachEntry(m, dir, entries, patterns) ==
  IF entries = <<>> THEN m
  ELSE
    LET e        == Head(entries)
        filePath == Append(dir, e.name)
        m1 ==
          IF e.type = "symlink" THEN m
          ELSE IF ~Contained(filePath, ProjectRoot) THEN m
          ELSE IF \E d \in excludeDirs : StartsWith(PathString(filePath), PathString(d))
            THEN m
          ELSE IF e.type = "dir"
            THEN IF Head(e.name) # "." /\ e.name # <<"node_modules">>
                   THEN scanDirectory(m, filePath, patterns)
                   ELSE m
          ELSE IF ScanFileRe(e.name) THEN scanFile(m, filePath, patterns)
          ELSE m
    \* m1 is complete before the next entry is taken up
    IN IF m1.visits >= 0 THEN forEachEntry(m1, dir, Tail(entries), patterns) ELSE m1

\* fs.existsSync: false when the path cannot be stat'ed
Exists(p) == ~Stat(p).err

IdleScan ==
  [ pc |-> "idle", found |-> <<>>, scanned |-> {}, readFiles |-> {}, listed |-> {},
    guarded |-> {}, visits |-> 0, patterns |-> <<>>, result |-> Result("none", "none"),
    order |-> "listed" ]

\* faulty variant: any record, definition-tagged ones too, fails the check
SecretsResult_AnyRecordFails(found) ==
  IF Len(found) > 0 THEN Result("fail", "critical") ELSE Result("pass", "info")

\* security.ts 509-555: the result for the records found
SecretsResult(found) ==
  LET defs  == SelectSeq(found, LAMBDA x : x.isDefinition)
      reals == SelectSeq(found, LAMBDA x : ~x.isDefinition)
  IN IF Len(found) > 0
       THEN IF Len(reals) > 0 THEN Result("fail", "critical")
            ELSE Result("warn", "warning")
       ELSE Result("pass", "info")

\* security.ts 392-565; nothing below scanDirectory lets an exception out, so
\* the catch at 556 is never entered
checkSecretsIn(config, file, order) ==
  IF ~config.checkSecrets
    THEN [IdleScan EXCEPT !.pc = "done", !.result = Result("skip", "info")]
  ELSE LET patterns == loadPatterns(file)
           start    == [IdleScan EXCEPT !.patterns = patterns, !.order = order]
       IN IF ~Exists(SrcDir)
            THEN [start EXCEPT !.pc = "done", !.result = Result("skip", "info")]
            ELSE LET m == scanDirectory(start, SrcDir, patterns)
                 IN [m EXCEPT !.pc = "done", !.result = SecretsResult(m.found)]

checkSecrets(config, file) == checkSecretsIn(config, file, "listed")

\* the failing calls a scan may meet
FailureChoices ==
  { {},
    { <<"readdir", SrcDir \o << <<"dir1">> >> >> },
    { <<"read", ProbeFile>> },
    { <<"stat", SrcDir \o << <<"dir2">> >> >>, <<"stat", ProbeFile>> } }

ScanInit ==
  /\ unreadable = {}
  /\ patternFile \in PatternFiles
  /\ probe \in Contents(MaxLines)
  /\ scan = IdleScan
  /\ rescan = <<>>

ScanIdle ==
  /\ unreadable = {}
  /\ patternFile = [state |-> "absent", list |-> <<>>]
  /\ probe = << PlainLine >>
  /\ scan = IdleScan
  /\ rescan = <<>>

\* the tree with one of the failure choices, the built-in patterns, a key in
\* src/main.ts
TravInit ==
  /\ unreadable \in FailureChoices
  /\ patternFile = [state |-> "absent", list |-> <<>>]
  /\ probe = << RealKeyLine >>
  /\ scan = IdleScan
  /\ rescan = <<>>

\* a file src/main.ts of one line, any pattern file, any failure choice
TwiceInit ==
  /\ unreadable \in FailureChoices
  /\ patternFile \in PatternFiles
  /\ probe \in { << PlainLine >>, << RealKeyLine >>, << DefKeyLine >> }
  /\ scan = IdleScan
  /\ rescan = <<>>

\* runSecurityChecks calls checkSecrets, which runs to its end without suspending
CheckSecrets ==
  /\ scan.pc = "idle"
  /\ scan' = checkSecrets(cfg, patternFile)
  /\ UNCHANGED <<unreadable, patternFile, probe, rescan>>
  /\ UNCHANGED <<envVars, guardVars, aggVars, orchVars, walkVars, procVars>>

\* faulty variant: the records of the first call are still in the list the
\* second call pushes to
CheckSecretsAgain_KeptRecords(order) ==
  /\ scan.pc = "done"
  /\ rescan = <<>>
  /\ LET m == checkSecretsIn(cfg, patternFile, order) IN
       rescan' = << IF m.result.status = "skip" THEN m
                    ELSE [m EXCEPT !.found = scan.found \o @,
                                   !.result = SecretsResult(scan.found \o m.found)] >>
  /\ UNCHANGED <<unreadable, patternFile, probe, scan>>
  /\ UNCHANGED <<envVars, guardVars, aggVars, orchVars, walkVars, procVars>>

\* a later runSecurityChecks in the same process calls checkSecrets again on
\* the unchanged tree: patterns and foundSecrets are locals of the call
CheckSecretsAgain(order) ==
  /\ scan.pc = "done"
  /\ rescan = <<>>
  /\ rescan' = << checkSecretsIn(cfg, patternFile, order) >>
  /\ UNCHANGED <<unreadable, patternFile, probe, scan>>
  /\ UNCHANGED <<envVars, guardVars, aggVars, orchVars, walkVars, procVars>>

(***************************************************************************)
(* checks/security.ts: checkEnvFiles.  A file name and a line of           *)
(* .gitignore are sequences of string pieces; the content of .gitignore    *)
(* is its lines, each followed by a line break.                            *)
(***************************************************************************)

EnvName     == << ".env" >>
EnvLocal    == << ".env", ".local" >>
EnvExample  == << ".env", ".example" >>
EnvNames    == { EnvName, EnvLocal, EnvExample }

IgnoreLines ==
  { << ".env" >>, << ".env", "*" >>, << "/", ".env" >>, << ".env", ".local" >>,
    << ".env", ".example" >>, << "#", ".env" >>, << "!", ".env" >>,
    << "node_modules" >> }

\* how many lines .gitignore holds at most
MaxIgnoreLines == 2

RECURSIVE IgnoreFiles(_)
IgnoreFiles(n) ==
  IF n = 0 THEN { <<>> }
  ELSE IgnoreFiles(n - 1) \cup
       { Append(f, l) : f \in { x \in IgnoreFiles(n - 1) : Len(x) = n - 1 },
                        l \in IgnoreLines }

\* fs.readFileSync(".gitignore", "utf-8")
RECURSIVE Content(_)
Content(lines) ==
  IF lines = <<>> THEN <<>> ELSE Head(lines) \o << "\n" >> \o Content(Tail(lines))

\* String.prototype.includes
IncludesStr(str, word) ==
  \E i \in 1..(Len(str) - Len(word) + 1) : SubSeq(str, i, i + Len(word) - 1) = word

\* a piece that starts with a word character
WordPiece(piece) == piece \in { "ironment", "node_modules" }

\* security.ts 676: /\.env\*|\.env\b/
hasEnvWildcard(str) ==
  \E i \in 1..Len(str) :
     /\ str[i] = ".env"
     /\ i = Len(str) \/ ~WordPiece(str[i + 1])

\* security.ts 664-673
hasEnvPattern(str) ==
  \E word \in { << ".env" >>, << "/", ".env" >>, << ".env", "\n" >>, << ".env", "\r\n" >>,
                << "\n", ".env" >>, << "\r\n", ".env" >> } : IncludesStr(str, word)

Throws(what) == Result("throw", what)

\* security.ts 650-726
checkEnvFiles(files, ignore) ==
  LET hasEnv        == EnvName \in files
      hasEnvExample == EnvExample \in files
      hasGitignore  == ignore.state # "absent"
      str           == Content(ignore.lines)
      issue         == /\ hasEnv /\ hasGitignore
                       /\ ~hasEnvPattern(str) /\ ~hasEnvWildcard(str)
      warning       == hasEnv /\ ~hasEnvExample
  IN IF hasEnv /\ ignore.state = "unreadable" THEN Throws("EISDIR")
     ELSE IF ~hasEnv /\ ~hasGitignore THEN Result("pass", "info")
     ELSE IF issue THEN Result("fail", "critical")
     ELSE IF warning THEN Result("warn", "warning")
     ELSE Result("pass", "info")

EnvInit ==
  /\ envFiles \in SUBSET EnvNames
  /\ gitignore \in { [state |-> "absent", lines |-> <<>>],
                     [state |-> "unreadable", lines |-> <<>>] }
                   \cup { [state |-> "file", lines |-> f] : f \in IgnoreFiles(MaxIgnoreLines) }
  /\ envResult = <<>>

EnvIdle ==
  /\ envFiles = {}
  /\ gitignore = [state |-> "absent", lines |-> <<>>]
  /\ envResult = <<>>

\* runSecurityChecks calls checkEnvFiles
CheckEnvFiles ==
  /\ envResult = <<>>
  /\ envResult' = << checkEnvFiles(envFiles, gitignore) >>
  /\ UNCHANGED <<envFiles, gitignore>>
  /\ UNCHANGED <<scanVars, guardVars, aggVars, orchVars, walkVars, procVars>>

(***************************************************************************)
(* The containment test on its own: security.ts 459-463, tests.ts 130-132  *)
(***************************************************************************)

GuardNames == { <<"proj">>, <<"proj", "-evil">>, <<"src">>, <<"..">>, <<"ext">> }

\* how many segments a path handed to the test has at most
MaxSegments == 3

RECURSIVE Paths(_)
Paths(n) ==
  IF n = 0 THEN { <<>> }
  ELSE Paths(n - 1) \cup
       { Append(q, nm) : q \in { x \in Paths(n - 1) : Len(x) = n - 1 }, nm \in GuardNames }

GuardInit ==
  /\ guardPath \in Paths(MaxSegments)
  /\ guardRoot \in { Root, SrcDir }
  /\ guardResult = <<>>

GuardIdle ==
  /\ guardPath = Root
  /\ guardRoot = Root
  /\ guardResult = <<>>

ApplyGuard ==
  /\ guardResult = <<>>
  /\ guardResult' = << Contained(guardPath, guardRoot) >>
  /\ UNCHANGED <<guardPath, guardRoot>>
  /\ UNCHANGED <<scanVars, envVars, aggVars, orchVars, walkVars, procVars>>

MoreIdle == ScanIdle /\ EnvIdle /\ GuardIdle

(***************************************************************************)
(* checks/security.ts: spawnCommand and the checks that call it            *)
(***************************************************************************)

\* security.ts 293, 919, 966: the three callers
Callers == {"npm audit", "publish dry-run", "sbom"}

\* security.ts 295, 921, 968, 1184: 10 * 1024 * 1024 for every caller
maxBuffer == 10 * 1024 * 1024

\* the size of one piece of output, and how many data events one run delivers
ChunkBytes == 4194304
MaxDataEvents == 3

DataSizes == {ChunkBytes, 2 * ChunkBytes}

\* Types.d.ts 13: the values of security.auditLevel, least severe first
Severities == << "info", "low", "moderate", "high", "critical" >>

AuditLevels == Range(Severities) \cup {"unset"}

\* what stdout holds for the parsing caller: no JSON at all, an audit report
\* with no vulnerabilities, an audit report whose worst vulnerability is of
\* the named severity, or text that starts like JSON and does not parse
AuditOutputs == {"nojson", "clean", "garbage"} \cup Range(Severities)

\* exit codes as the close event hands them over; "null" is a death by signal,
\* "-2" what follows a failed spawn
NaturalCodes == {"0", "1", "2", "null"}

Pending == [state |-> "pending", reason |-> "none", code |-> "none",
            out |-> 0, err |-> 0, captured |-> FALSE]

\* faulty variant: the last call of resolve or reject decides
Settle_LastCallWins(p, outcome) == outcome

\* a promise settles once: resolve and reject on a settled promise do nothing
Settle(p, outcome) == IF p.state = "pending" THEN outcome ELSE p

Rejected(reason) ==
  [state |-> "rejected", reason |-> reason, code |-> "none",
   out |-> 0, err |-> 0, captured |-> FALSE]

ProcInit ==
  /\ caller \in Callers
  /\ auditLevel \in AuditLevels
  /\ toolOutput \in (IF caller = "npm audit" THEN AuditOutputs ELSE {"text"})
  /\ proc = [state |-> "running", kills |-> 0, events |-> 0]
  /\ stdout = 0
  /\ stderr = 0
  /\ killed = FALSE
  /\ timer = "armed"
  /\ promise = Pending
  /\ rejectCalls = {}
  /\ checkResult = <<>>

ProcIdle ==
  /\ caller = "npm audit"
  /\ auditLevel = "unset"
  /\ toolOutput = "nojson"
  /\ proc = [state |-> "closed", kills |-> 0, events |-> 0]
  /\ stdout = 0
  /\ stderr = 0
  /\ killed = FALSE
  /\ timer = "cleared"
  /\ promise = Pending
  /\ rejectCalls = {}
  /\ checkResult = <<>>

\* faulty variant: the timer only kills; the rejection is left to the close handler
OnTimeout_KillOnly ==
  /\ timer = "armed"
  /\ timer' = "fired"
  /\ killed' = TRUE
  /\ proc' = [proc EXCEPT !.kills = @ + 1]
  /\ UNCHANGED <<promise, rejectCalls>>
  /\ UNCHANGED <<caller, auditLevel, toolOutput, stdout, stderr, checkResult>>
  /\ UNCHANGED <<moreVars, aggVars, orchVars, walkVars>>

\* security.ts 1196-1200: the timer callback
OnTimeout ==
  /\ timer = "armed"
  /\ timer' = "fired"
  /\ killed' = TRUE
  /\ proc' = [proc EXCEPT !.kills = @ + 1]
  /\ promise' = Settle(promise, Rejected("timeout"))
  /\ rejectCalls' = rejectCalls \cup {"timeout"}
  /\ UNCHANGED <<caller, auditLevel, toolOutput, stdout, stderr, checkResult>>
  /\ UNCHANGED <<moreVars, aggVars, orchVars, walkVars>>

\* the child still delivers output: it was spawned and has not closed
Delivering == proc.state = "running" /\ proc.events < MaxDataEvents

\* faulty variant: one cap over both streams together
OnStdoutData_SharedCap(n) ==
  /\ Delivering
  /\ stdout' = stdout + n
  /\ IF stdout' + stderr > maxBuffer
       THEN /\ killed' = TRUE
            /\ proc' = [proc EXCEPT !.kills = @ + 1, !.events = @ + 1]
            /\ promise' = Settle(promise, Rejected("stdout maxBuffer"))
            /\ rejectCalls' = rejectCalls \cup {"stdout maxBuffer"}
       ELSE /\ proc' = [proc EXCEPT !.events = @ + 1]
            /\ UNCHANGED <<killed, promise, rejectCalls>>
  /\ UNCHANGED <<caller, auditLevel, toolOutput, stderr, timer, checkResult>>
  /\ UNCHANGED <<moreVars, aggVars, orchVars, walkVars>>

\* faulty variant: output is collected without a cap
OnStdoutData_Uncapped(n) ==
  /\ Delivering
  /\ stdout' = stdout + n
  /\ proc' = [proc EXCEPT !.events = @ + 1]
  /\ UNCHANGED <<killed, promise, rejectCalls>>
  /\ UNCHANGED <<caller, auditLevel, toolOutput, stderr, timer, checkResult>>
  /\ UNCHANGED <<moreVars, aggVars, orchVars, walkVars>>

\* security.ts 1202-1209: proc.stdout.on("data")
OnStdoutData(n) ==
  /\ Delivering
  /\ stdout' = stdout + n
  /\ IF stdout' > maxBuffer
       THEN /\ killed' = TRUE
            /\ proc' = [proc EXCEPT !.kills = @ + 1, !.events = @ + 1]
            /\ promise' = Settle(promise, Rejected("stdout maxBuffer"))
            /\ rejectCalls' = rejectCalls \cup {"stdout maxBuffer"}
       ELSE /\ proc' = [proc EXCEPT !.events = @ + 1]
            /\ UNCHANGED <<killed, promise, rejectCalls>>
  /\ UNCHANGED <<caller, auditLevel, toolOutput, stderr, timer, checkResult>>
  /\ UNCHANGED <<moreVars, aggVars, orchVars, walkVars>>

\* security.ts 1211-1218: proc.stderr.on("data")
OnStderrData(n) ==
  /\ Delivering
  /\ stderr' = stderr + n
  /\ IF stderr' > maxBuffer
       THEN /\ killed' = TRUE
            /\ proc' = [proc EXCEPT !.kills = @ + 1, !.events = @ + 1]
            /\ promise' = Settle(promise, Rejected("stderr maxBuffer"))
            /\ rejectCalls' = rejectCalls \cup {"stderr maxBuffer"}
       ELSE /\ proc' = [proc EXCEPT !.events = @ + 1]
            /\ UNCHANGED <<killed, promise, rejectCalls>>
  /\ UNCHANGED <<caller, auditLevel, toolOutput, stdout, timer, checkResult>>
  /\ UNCHANGED <<moreVars, aggVars, orchVars, walkVars>>

\* the codes a close event can carry: a child that was sent a signal may die of
\* it ("null") or handle it and exit by itself; a failed spawn closes with "-2"
CloseCodes ==
  IF proc.state = "failed" THEN {"-2"} ELSE NaturalCodes

\* security.ts 1220-1234: proc.on("close"); code || 0 leaves 0 and 1 as they are
OnClose(code) ==
  /\ proc.state \in {"running", "failed"}
  /\ code \in CloseCodes
  /\ proc' = [proc EXCEPT !.state = "closed"]
  /\ timer' = IF timer = "armed" THEN "cleared" ELSE timer
  /\ IF ~killed
       THEN IF code = "0" \/ code = "1"
              THEN /\ promise' = Settle(promise,
                        [state |-> "resolved", reason |-> "none", code |-> code,
                         out |-> stdout, err |-> stderr, captured |-> TRUE])
                   /\ UNCHANGED rejectCalls
              ELSE /\ promise' = Settle(promise,
                        [state |-> "rejected", reason |-> "exit code", code |-> code,
                         out |-> stdout, err |-> stderr, captured |-> TRUE])
                   /\ rejectCalls' = rejectCalls \cup {"exit code"}
       ELSE UNCHANGED <<promise, rejectCalls>>
  /\ UNCHANGED <<caller, auditLevel, toolOutput, stdout, stderr, killed, checkResult>>
  /\ UNCHANGED <<moreVars, aggVars, orchVars, walkVars>>

\* faulty variant: the error is noted and the rejection left to the timer
OnError_LeftToTimer ==
  /\ proc.state = "running"
  /\ proc.events = 0 /\ proc.kills = 0 /\ timer = "armed"
  /\ proc' = [proc EXCEPT !.state = "failed"]
  /\ UNCHANGED <<timer, promise, rejectCalls>>
  /\ UNCHANGED <<caller, auditLevel, toolOutput, stdout, stderr, killed, checkResult>>
  /\ UNCHANGED <<moreVars, aggVars, orchVars, walkVars>>

\* security.ts 1236-1241: proc.on("error"); a failed spawn reports on the next
\* tick, before any output or timer
OnError ==
  /\ proc.state = "running"
  /\ proc.events = 0 /\ proc.kills = 0 /\ timer = "armed"
  /\ proc' = [proc EXCEPT !.state = "failed"]
  /\ timer' = "cleared"
  /\ IF ~killed
       THEN /\ promise' = Settle(promise, Rejected("spawn error"))
            /\ rejectCalls' = rejectCalls \cup {"spawn error"}
       ELSE UNCHANGED <<promise, rejectCalls>>
  /\ UNCHANGED <<caller, auditLevel, toolOutput, stdout, stderr, killed, checkResult>>
  /\ UNCHANGED <<moreVars, aggVars, orchVars, walkVars>>

\* security.ts 1236-1241: proc.on("error") for a signal that could not be
\* delivered; the child runs on
OnKillError ==
  /\ proc.state = "running"
  /\ proc.kills > 0
  /\ timer' = IF timer = "armed" THEN "cleared" ELSE timer
  /\ IF ~killed
       THEN /\ promise' = Settle(promise, Rejected("kill error"))
            /\ rejectCalls' = rejectCalls \cup {"kill error"}
       ELSE UNCHANGED <<promise, rejectCalls>>
  /\ UNCHANGED <<caller, auditLevel, toolOutput, proc, stdout, stderr, killed, checkResult>>
  /\ UNCHANGED <<moreVars, aggVars, orchVars, walkVars>>

\* security.ts 1102-1141 and JSON.parse, on the abstract output
ParsedAudit(len) == IF len = 0 THEN "nojson" ELSE toolOutput

\* security.ts 291-386; config.auditLevel is not read
checkNpmAudit(p) ==
  IF p.state = "resolved"
    THEN CASE ParsedAudit(p.out) = "nojson"  -> Result("warn", "warning")
           [] ParsedAudit(p.out) = "garbage" -> Result("warn", "warning")
           [] ParsedAudit(p.out) = "clean"   -> Result("pass", "info")
           [] ParsedAudit(p.out) \in {"info", "low", "moderate"} -> Result("warn", "warning")
           [] ParsedAudit(p.out) \in {"high", "critical"}        -> Result("fail", "critical")
    ELSE IF p.captured /\ p.out > 0 /\ ParsedAudit(p.out) \in {"high", "critical"}
           THEN Result("fail", "critical")
           ELSE Result("warn", "warning")

\* security.ts 918-941
checkPublishDryRun(p) ==
  IF p.state = "resolved" THEN Result("pass", "info") ELSE Result("warn", "warning")

\* security.ts 966-991; writeFileSync may fail
checkSbomGeneration(p, written) ==
  IF p.state = "resolved" /\ written THEN Result("pass", "info")
  ELSE Result("warn", "warning")

\* the await of spawnCommand in the calling check continues
CheckReturns ==
  /\ promise.state # "pending"
  /\ checkResult = <<>>
  /\ \/ /\ caller = "npm audit"
        /\ checkResult' = << checkNpmAudit(promise) >>
     \/ /\ caller = "publish dry-run"
        /\ checkResult' = << checkPublishDryRun(promise) >>
     \/ /\ caller = "sbom"
        /\ \E written \in BOOLEAN :
             checkResult' = << checkSbomGeneration(promise, written) >>
  /\ UNCHANGED <<caller, auditLevel, toolOutput, proc, stdout, stderr, killed, timer, promise,
                 rejectCalls>>
  /\ UNCHANGED <<moreVars, aggVars, orchVars, walkVars>>

(***************************************************************************)
(* runValidation with one spawned command that hangs: the command of the   *)
(* check named by caller neither writes output nor exits by itself.  The   *)
(* process variables describe that command from its spawn on; nothing      *)
(* happens to it before its check has been called.                         *)
(***************************************************************************)

\* the checks that spawn a command under the configuration
Spawners(config) == { c \in Callers : AsyncOutcomes(c, config) # {} }

HungInit ==
  /\ caller \in Spawners(cfg)
  /\ auditLevel = "unset"
  /\ toolOutput = (IF caller = "npm audit" THEN "nojson" ELSE "text")
  /\ proc = [state |-> "running", kills |-> 0, events |-> 0]
  /\ stdout = 0
  /\ stderr = 0
  /\ killed = FALSE
  /\ timer = "armed"
  /\ promise = Pending
  /\ rejectCalls = {}
  /\ checkResult = <<>>

\* security.ts 1184-1200: the timer armed at the spawn expires; a timer callback
\* runs only after the synchronous calls of runValidation have all been made
HungTimeout ==
  /\ started = Len(Declared)
  /\ slot[caller] = "pending"
  /\ OnTimeout

\* the killed command dies of the signal, or not at all
HungClose(code) ==
  /\ killed
  /\ OnClose(code)

\* what the calling check returns for a settled spawnCommand promise
CallerResults(p) ==
  CASE caller = "npm audit"       -> { checkNpmAudit(p) }
    [] caller = "publish dry-run" -> { checkPublishDryRun(p) }
    [] caller = "sbom"            -> { checkSbomGeneration(p, w) : w \in BOOLEAN }

\* security.ts 293-386, 919-941, 966-991: the await of spawnCommand continues
\* and the check's own promise is fulfilled with the result it returns
SpawnerReturns ==
  /\ started = Len(Declared)
  /\ slot[caller] = "pending"
  /\ promise.state # "pending"
  /\ checkResult = <<>>
  /\ \E r \in CallerResults(promise) :
       /\ checkResult' = << r >>
       /\ slot' = [slot EXCEPT ![caller] = r.status]
  /\ outOfOrder' = ( outOfOrder \/
       \E i, j \in 1..Len(Declared) :
          i < j /\ Declared[j] = caller /\ slot[Declared[i]] = "pending" )
  /\ UNCHANGED <<cfg, started, run>>
  /\ UNCHANGED <<caller, auditLevel, toolOutput, proc, stdout, stderr, killed, timer, promise,
                 rejectCalls>>
  /\ UNCHANGED <<moreVars, aggVars, walkVars>>

\* a sibling of the spawning check settles
SiblingCompletes(c) ==
  /\ c # caller
  /\ CompleteCheck(c)

(***************************************************************************)
(* Specifications                                                          *)
(***************************************************************************)

InitAgg == AggInit /\ OrchIdle /\ WalkInit /\ ProcIdle /\ MoreIdle
NextAgg == Aggregate
SpecAgg == InitAgg /\ [][NextAgg]_vars

InitOrch == OrchInit /\ AggIdle /\ WalkInit /\ ProcIdle /\ MoreIdle
NextOrch ==
  \/ StartCheck
  \/ \E c \in Range(Declared) : CompleteCheck(c)
  \/ SettleRun
SpecOrch == InitOrch /\ [][NextOrch]_vars

InitWalk == WalkInit /\ AggIdle /\ OrchIdle /\ ProcIdle /\ MoreIdle
NextWalk ==
  \/ \E t \in Traversals : FindTestFiles(t)
  \/ \E t \in Traversals : StatDone(t)
  \/ \E t \in Traversals : ReaddirDone(t)
SpecWalk == InitWalk /\ [][NextWalk]_vars

\* Both traversals on a tree where some calls fail.
InitTrav == TravInit /\ WalkInit /\ AggIdle /\ OrchIdle /\ ProcIdle /\ EnvIdle /\ GuardIdle
NextTrav ==
  \/ \E t \in Traversals : FindTestFiles(t)
  \/ \E t \in Traversals : StatDone(t)
  \/ \E t \in Traversals : ReaddirDone(t)
  \/ CheckSecrets
SpecTrav == InitTrav /\ [][NextTrav]_vars

InitProc == ProcInit /\ AggIdle /\ OrchIdle /\ WalkInit /\ MoreIdle
NextProc ==
  \/ OnTimeout
  \/ \E n \in DataSizes : OnStdoutData(n)
  \/ \E n \in DataSizes : OnStderrData(n)
  \/ \E code \in NaturalCodes \cup {"-2"} : OnClose(code)
  \/ OnError
  \/ OnKillError
  \/ CheckReturns
SpecProc == InitProc /\ [][NextProc]_vars

\* security.ts 1196-1200: a timer that stays armed expires
FairProc == WF_vars(OnTimeout)
SpecSettle == InitProc /\ [][NextProc]_vars /\ FairProc

\* The event loop runs every callback that is due: synchronous code runs on,
\* a timer that is armed fires, a continuation whose promise has settled runs,
\* and the file reads the sibling checks wait for complete.
InitHang == OrchInit /\ HungInit /\ AggIdle /\ WalkInit /\ MoreIdle
NextHang ==
  \/ StartCheck
  \/ \E c \in Range(Declared) : SiblingCompletes(c)
  \/ HungTimeout
  \/ \E code \in NaturalCodes : HungClose(code)
  \/ SpawnerReturns
  \/ SettleRun
FairHang ==
  /\ WF_vars(StartCheck)
  /\ \A c \in Range(Declared) : WF_vars(SiblingCompletes(c))
  /\ WF_vars(HungTimeout)
  /\ WF_vars(SpawnerReturns)
  /\ WF_vars(SettleRun)
SpecHang == InitHang /\ [][NextHang]_vars /\ FairHang

InitScan == ScanInit /\ OrchInit /\ AggIdle /\ WalkInit /\ ProcIdle /\ EnvIdle /\ GuardIdle
NextScan == CheckSecrets
SpecScan == InitScan /\ [][NextScan]_vars

\* checkSecrets called twice in one process on the same tree
InitTwice == TwiceInit /\ OrchInit /\ AggIdle /\ WalkInit /\ ProcIdle /\ EnvIdle /\ GuardIdle
NextTwice ==
  \/ CheckSecrets
  \/ \E order \in Orders : CheckSecretsAgain(order)
SpecTwice == InitTwice /\ [][NextTwice]_vars

InitEnv == EnvInit /\ OrchIdle /\ AggIdle /\ WalkInit /\ ProcIdle /\ ScanIdle /\ GuardIdle
NextEnv == CheckEnvFiles
SpecEnv == InitEnv /\ [][NextEnv]_vars

InitGuard == GuardInit /\ OrchIdle /\ AggIdle /\ WalkInit /\ ProcIdle /\ ScanIdle /\ EnvIdle
NextGuard == ApplyGuard
SpecGuard == InitGuard /\ [][NextGuard]_vars

(***************************************************************************)
(* Claims                                                                  *)
(***************************************************************************)

StatusSet(checks) == { checks[i].status : i \in 1..Len(checks) }
NameSeq(checks)   == [ i \in 1..Len(checks) |-> checks[i].name ]
IndexesWith(checks, st) == { i \in 1..Len(checks) : checks[i].status = st }
Thrown == { c \in Range(Declared) : slot[c] = "throw" }

\* C1 (SpecOrch): no exception escapes the orchestrator: also when a check
\* throws, runValidation resolves with one CheckResult per declared check, the
\* throwing check shown as a fail result, and overallStatus fail.
C1_NoExceptionEscapes ==
  /\ run.state # "rejected"
  /\ run.state = "resolved" => Len(run.report.checks) = Len(Declared)
  /\ (run.state \in {"resolved", "rejected"} /\ Thrown # {}) =>
        /\ run.state = "resolved"
        /\ run.report.overallStatus = "fail"

\* C3 (SpecAgg): overallStatus is fail if any check failed, else warn if any
\* check warned, else skip if all checks were skipped, else pass.
C3_OverallStatusPrecedence ==
  \A k \in 1..Len(aggReport) :
    LET sts == StatusSet(aggReport[k].checks) IN
      aggReport[k].overallStatus =
        IF "fail" \in sts THEN "fail"
        ELSE IF "warn" \in sts THEN "warn"
        ELSE IF sts \subseteq {"skip"} THEN "skip"
        ELSE "pass"

\* a report built from a list holding a warn before a fail
C3_Witness ==
  /\ aggReport # <<>>
  /\ \E i, j \in 1..Len(aggChecks) :
       i < j /\ aggChecks[i].status = "warn" /\ aggChecks[j].status = "fail"
  /\ aggReport[1].overallStatus = "fail"

\* C4 (SpecAgg): the summary counts partition the checks list by status:
\* each count is the number of checks with that status, total is the length of
\* the list, and passed + warnings + failed + skipped = total.
C4_SummaryPartition ==
  \A k \in 1..Len(aggReport) :
    LET r == aggReport[k] IN
      /\ r.summary.total    = Len(r.checks)
      /\ r.summary.passed   = Cardinality(IndexesWith(r.checks, "pass"))
      /\ r.summary.warnings = Cardinality(IndexesWith(r.checks, "warn"))
      /\ r.summary.failed   = Cardinality(IndexesWith(r.checks, "fail"))
      /\ r.summary.skipped  = Cardinality(IndexesWith(r.checks, "skip"))
      /\ r.summary.passed + r.summary.warnings + r.summary.failed
           + r.summary.skipped = r.summary.total

\* a report over a list in which every status occurs
C4_Witness ==
  /\ aggReport # <<>>
  /\ StatusSet(aggReport[1].checks) = Statuses
  /\ aggReport[1].summary.total = Cardinality(Statuses)

\* C5 (SpecOrch): whatever the order in which the checks complete, the
\* report lists them in declaration order.
C5_DeclarationOrder ==
  run.state = "resolved" => NameSeq(run.report.checks) = Declared

\* a report produced after a later-declared check completed before an earlier one
C5_Witness ==
  /\ run.state = "resolved"
  /\ outOfOrder

\* C2 (SpecWalk): two traversal invocations interleaved at their stat/readdir
\* suspension points each emit exactly the files they emit when run alone,
\* list the same directories, and report no cycle they do not report alone.
C2_TraversalsIndependent ==
  \A t \in Traversals :
    walk[t].pc = "done" =>
      /\ Range(walk[t].out) = Range(Alone.out)
      /\ walk[t].listed = Alone.listed
      /\ walk[t].cycles = Alone.cycles

UnderRoot(p) == Len(p) >= Len(Root) /\ SubSeq(p, 1, Len(Root)) = Root

\* C6 (SpecWalk): no directory is listed through a symbolic link, the start
\* directories included, and no emitted file lies physically outside the
\* project root.
C6_NoSymlinkFollowed ==
  \A t \in Traversals :
    /\ \A d \in walk[t].listed : RealPath(d) = d
    /\ \A f \in walk[t].emitted : UnderRoot(RealPath(f))

\* C7 (SpecProc): when the timer expires before the process has closed, the
\* timer callback kills the process and rejects with the timeout error in that
\* same step, the process still not closed; a promise that was pending is then
\* rejected with the timeout error.
C7_TimeoutRejectsAtExpiry ==
  [][ (timer = "armed" /\ timer' = "fired" /\ proc.state # "closed") =>
        /\ killed'
        /\ proc'.kills = proc.kills + 1
        /\ "timeout" \in rejectCalls'
        /\ promise'.state = "rejected"
        /\ promise.state = "pending" => promise'.reason = "timeout"
        /\ proc'.state # "closed" ]_vars

\* rejected for the timeout while the process is still running
C7_Witness ==
  /\ timer = "fired"
  /\ promise.state = "rejected" /\ promise.reason = "timeout"
  /\ proc.state = "running"

\* C8 (SpecProc): a data event that takes stdout, or stderr, above maxBuffer
\* kills the process and rejects with that stream's buffer error in the same
\* step, the process not yet closed; a data event that leaves each stream
\* within its own cap neither kills nor settles, whatever the other stream holds.
C8_BufferCapPerStream ==
  [][ /\ (stdout' # stdout /\ stdout' > maxBuffer) =>
            /\ killed'
            /\ proc'.kills = proc.kills + 1
            /\ "stdout maxBuffer" \in rejectCalls'
            /\ promise'.state = "rejected"
            /\ promise.state = "pending" => promise'.reason = "stdout maxBuffer"
            /\ proc'.state = "running"
      /\ (stderr' # stderr /\ stderr' > maxBuffer) =>
            /\ killed'
            /\ proc'.kills = proc.kills + 1
            /\ "stderr maxBuffer" \in rejectCalls'
            /\ promise'.state = "rejected"
            /\ promise.state = "pending" => promise'.reason = "stderr maxBuffer"
            /\ proc'.state = "running"
      /\ ((stdout' # stdout \/ stderr' # stderr)
            /\ stdout' <= maxBuffer /\ stderr' <= maxBuffer) =>
            /\ promise' = promise
            /\ killed' = killed
            /\ proc'.kills = proc.kills ]_vars

\* stderr went over its cap while stdout, not empty, was within its own, and
\* the process had not closed
C8_Witness ==
  /\ promise.state = "rejected" /\ promise.reason = "stderr maxBuffer"
  /\ stdout > 0 /\ stdout <= maxBuffer
  /\ proc.state = "running"

\* C9 (SpecProc): a non-zero exit code resolves only for the audit caller and
\* only as code 1; for every other caller and code the promise is rejected with
\* an error that carries stdout, stderr and the code.
C9_ExitCodePolicyPerCaller ==
  /\ (promise.state = "resolved" /\ promise.code # "0") =>
        (caller = "npm audit" /\ promise.code = "1")
  /\ (promise.state = "rejected" /\ promise.reason = "exit code") =>
        (promise.captured /\ promise.code \notin {"0", "1"})

\* C10 (SpecProc): a check whose spawnCommand call was rejected (timeout,
\* buffer, exit code, spawn error) returns status fail with severity error.
C10_ProcessErrorsBecomeFailError ==
  \A k \in 1..Len(checkResult) :
    promise.state = "rejected" =>
      (checkResult[k].status = "fail" /\ checkResult[k].severity = "error")

\* the spawned command has neither written output nor exited by itself
Hung == stdout = 0 /\ stderr = 0 /\ (proc.state = "closed" => killed)

\* C11 (SpecHang): with a spawned command that never exits and never writes
\* output, runValidation eventually resolves with a report that holds one
\* result for every declared check, the spawning check's among them.
C11_HungCommandCannotBlockReport ==
  (Hung /\ run.state = "idle") ~>
     ( /\ run.state = "resolved"
       /\ Len(run.report.checks) = Len(Declared)
       /\ slot[caller] \in Statuses )

\* parts of C11 that the code does meet: the spawning check settles once its
\* timer has fired, and every sibling settles whatever the command does
C11_SpawnerSettles == (Hung /\ run.state = "idle") ~> (slot[caller] \in Statuses)
C11_SiblingsSettle ==
  (run.state = "idle") ~> (\A c \in Range(Declared) \ {caller} : slot[c] # "pending" /\ slot[c] # "idle")

\* C12 (SpecScan): every pattern the scanner uses, built-in or loaded from
\* config/patterns.json, has only bounded quantifiers: no + and no *.
C12_AllQuantifiersBounded ==
  scan.pc = "done" =>
    \A i \in 1..Len(scan.patterns) :
      \A j \in 1..Len(scan.patterns[i].regex) : scan.patterns[i].regex[j].bounded

\* the line holds AKIA followed by 16 uppercase alphanumerics
HasAccessKey(line) ==
  \E i \in 1..(Len(line) - 1) :
     line[i].c = "AKIA" /\ line[i + 1].c = "alnum" /\ line[i + 1].n >= 16

FirstVisible(line) == SelectSeq(line, LAMBDA t : t.c # "ws")

\* the line starts, blanks aside, with //, # or *
CommentLine(line) ==
  LET v == FirstVisible(line) IN
    v # <<>> /\ ( (v[1].c = "/" /\ v[1].n >= 2) \/ v[1].c = "#" \/ v[1].c = "*" )

HasMarker(line) ==
  \E i \in 1..Len(line) : line[i].c \in {"example", "placeholder", "TODO", "FIXME"}

\* the line reads like a pattern definition: "pattern" before : or =, a RegExp
\* construction, a variable named patterns, or two slashes
DefinitionLike(line) ==
  \/ \E i \in 1..Len(line) :
        /\ line[i].c = "pattern"
        /\ \/ i + 1 <= Len(line) /\ line[i + 1].c \in {"=", ":"}
           \/ i + 2 <= Len(line) /\ line[i + 1].c = "ws" /\ line[i + 2].c \in {"=", ":"}
  \/ \E i \in 1..Len(line) : line[i].c \in {"new RegExp(", "patterns"}
  \/ \E i, j \in 1..Len(line) : i < j /\ line[i].c = "/" /\ line[j].c = "/"
  \/ \E i \in 1..Len(line) : line[i].c = "/" /\ line[i].n >= 2

\* the real AWS Access Key records for one line of one file
RealKeyRecords(file, n) ==
  { k \in 1..Len(scan.found) :
      /\ scan.found[k].file = RelFile(file)
      /\ scan.found[k].line = n
      /\ scan.found[k].type = "AWS Access Key"
      /\ ~scan.found[k].isDefinition }

\* C13 as stated (SpecScan): in every scanned file, a line that is not a
\* comment line and holds an access key gives exactly one real record named
\* AWS Access Key, and the check returns fail with severity critical.
C13_KeyLineFailsCheck ==
  scan.pc = "done" =>
    \A f \in scan.readFiles :
      \A n \in 1..Len(FileLines(RealPath(f))) :
        LET line == FileLines(RealPath(f))[n] IN
          (HasAccessKey(line) /\ ~CommentLine(line)) =>
             /\ Cardinality(RealKeyRecords(f, n)) = 1
             /\ scan.result = Result("fail", "critical")

\* C13 amended (SpecScan): with the built-in patterns in use, a line of a
\* scanned file that holds an access key, is not a comment line, holds no
\* placeholder marker and does not read like a pattern definition gives exactly
\* one real record named AWS Access Key, and the check returns fail/critical.
C13_PlainKeyLineFailsCheck ==
  (scan.pc = "done" /\ patternFile.state # "list") =>
    \A f \in scan.readFiles :
      \A n \in 1..Len(FileLines(RealPath(f))) :
        LET line == FileLines(RealPath(f))[n] IN
          ( /\ HasAccessKey(line) /\ ~CommentLine(line)
            /\ ~HasMarker(line) /\ ~DefinitionLike(line) ) =>
             /\ Cardinality(RealKeyRecords(f, n)) = 1
             /\ scan.result = Result("fail", "critical")

\* the file src/main.ts was read with such a line as its only line
C13_Witness ==
  /\ scan.pc = "done"
  /\ patternFile.state = "absent"
  /\ ProbeFile \in scan.readFiles
  /\ Len(probe) = 1
  /\ HasAccessKey(probe[1]) /\ ~CommentLine(probe[1])
  /\ ~HasMarker(probe[1]) /\ ~DefinitionLike(probe[1])
  /\ scan.result = Result("fail", "critical")

SomeReal == \E k \in 1..Len(scan.found) : ~scan.found[k].isDefinition
SomeDefinition == \E k \in 1..Len(scan.found) : scan.found[k].isDefinition

\* C14 as stated (SpecScan): the result is fail/critical exactly when a real
\* record exists; with no real record and some definition-tagged one it is an
\* informational result of the lowest severity, never a failing one.
C14_DefinitionsAreInformational ==
  (scan.pc = "done" /\ scan.result.status # "skip") =>
    /\ (scan.result = Result("fail", "critical")) <=> SomeReal
    /\ (~SomeReal /\ SomeDefinition) =>
          (scan.result.status # "fail" /\ scan.result.severity = "info")

\* C14 amended (SpecScan): the result is fail/critical exactly when a real
\* record exists; with no real record and some definition-tagged one it is a
\* warn result of severity warning, never a failing one.
C14_DefinitionsOnlyWarn ==
  (scan.pc = "done" /\ scan.result.status # "skip") =>
    /\ (scan.result = Result("fail", "critical")) <=> SomeReal
    /\ scan.result.status = "fail" => SomeReal
    /\ (~SomeReal /\ SomeDefinition) => scan.result = Result("warn", "warning")

\* a scan that found definition-tagged records only
C14_Witness ==
  /\ scan.pc = "done"
  /\ SomeDefinition /\ ~SomeReal
  /\ scan.result = Result("warn", "warning")

\* what a .gitignore line stands for: a comment, a negation or a pattern
LinePattern(l) ==
  IF l # <<>> /\ Head(l) \in { "!", "/" } THEN Tail(l) ELSE l

\* the pattern of a .gitignore line matches a root-level file name: the name
\* itself, or a prefix of the name followed by *
LineMatches(l, name) ==
  LET pat == LinePattern(l) IN
    /\ l # <<>> /\ Head(l) # "#"
    /\ \/ pat = name
       \/ /\ pat # <<>> /\ pat[Len(pat)] = "*"
          /\ Len(pat) - 1 <= Len(name)
          /\ SubSeq(pat, 1, Len(pat) - 1) = SubSeq(name, 1, Len(pat) - 1)

\* the last line that matches the name decides, and it is not a negation
Covered(name, ignore) ==
  /\ ignore.state = "file"
  /\ \E i \in 1..Len(ignore.lines) :
        /\ LineMatches(ignore.lines[i], name)
        /\ Head(ignore.lines[i]) # "!"
        /\ \A j \in (i + 1)..Len(ignore.lines) : ~LineMatches(ignore.lines[j], name)

\* the environment files of the project root; .env.example is the template
EnvironmentFiles == envFiles \ { EnvExample }

\* C15 (SpecEnv): when an environment file exists that no ignore pattern
\* covers, the env-files result is not pass.
C15_UnignoredEnvFileReported ==
  envResult # <<>> =>
    ( (\E f \in EnvironmentFiles : ~Covered(f, gitignore)) =>
         envResult[1].status # "pass" )

\* C15, the part that holds (SpecEnv): with .env and a readable .gitignore
\* that nowhere holds the text .env, the result is fail/critical.
C15_EnvTextMissingFails ==
  ( /\ envResult # <<>> /\ EnvName \in envFiles /\ gitignore.state = "file"
    /\ \A i \in 1..Len(gitignore.lines) : ".env" \notin Range(gitignore.lines[i]) ) =>
       envResult[1] = Result("fail", "critical")

\* the path is the root or lies below it: segment by segment
Descendant(path, root) ==
  Len(path) >= Len(root) /\ SubSeq(path, 1, Len(root)) = root

C17_DescendantsContained ==
  (guardResult # <<>> /\ Descendant(PathResolve(guardPath), PathResolve(guardRoot))) =>
     guardResult[1]

\* C17, the part that holds (SpecScan): a directory is listed only after the
\* containment test has succeeded for it.
C17_ListedAfterGuard ==
  /\ scan.listed \subseteq scan.guarded
  /\ \A d \in scan.guarded : Contained(d, ProjectRoot)

\* how deep a path lies below the start directory it was reached from
Depth(p) == Len(p) - Len(Root) - 1

Parent(p) == SubSeq(p, 1, Len(p) - 1)

\* the test files a listing of the directory shows
TestFilesIn(d) ==
  LET r == Readdir(d) IN
    { Append(d, r.entries[i].name) :
        i \in { j \in 1..Len(r.entries) :
                  r.entries[j].type = "file" /\ TestFileRe(r.entries[j].name) } }

DepthBoundKept ==
  \A t \in Traversals :
    /\ \A d \in walk[t].listed : Depth(d) <= MAX_DEPTH
    /\ \A f \in walk[t].emitted : Depth(Parent(f)) <= MAX_DEPTH
    /\ \A d \in walk[t].truncated : Depth(d) > MAX_DEPTH /\ Parent(d) \in walk[t].listed
    /\ walk[t].pc = "done" =>
         \A d \in walk[t].listed : TestFilesIn(d) \subseteq walk[t].emitted

\* a traversal that has not ended waits for a file-system call of its
\* innermost directory: nothing has thrown and a step is due
Proceeds(t) ==
  walk[t].pc = "run" =>
    /\ walk[t].stack # <<>>
    /\ Top(walk[t]).pc \in { "stat", "readdir" }

\* C16 (SpecWalk): the walker lists no directory deeper than MAX_DEPTH below
\* its start directory and emits no file from below the bound; a directory
\* beyond the bound is cut off alone, the entries that follow it in its parent
\* are still handled, and the traversal goes on to its end without an error.
C16_DepthBoundTruncatesSubtree ==
  /\ DepthBoundKept
  /\ \A t \in Traversals :
        walk[t].truncated # {} => (Proceeds(t) /\ walk[t].pc \in { "run", "done" })

\* a traversal ended having cut off the directory at depth MAX_DEPTH + 1 and
\* emitted the file that follows it in its parent
C16_Witness ==
  \E t \in Traversals :
    /\ walk[t].pc = "done"
    /\ ChainPath(MAX_DEPTH + 1) \in walk[t].truncated
    /\ ChainFile(MAX_DEPTH) \in walk[t].emitted
    /\ ChainFile(MAX_DEPTH + 1) \notin walk[t].emitted

\* the names of the directories a path leads through, below the project root
DirNames(p) == { p[i] : i \in (Len(Root) + 1)..(Len(p) - 1) }

UnderDotDir(p) == \E nm \in DirNames(p) : Head(nm) = "."

UnderNodeModules(p) == <<"node_modules">> \in DirNames(p)

Dotfile(p) == Head(p[Len(p)]) = "."

UnderExcluded(p) == \E d \in excludeDirs : Descendant(p, d)

\* everything a traversal handed on: the files the walkers emitted and the
\* files the scanner passed to scanFile
HandedOn == (UNION { walk[t].emitted : t \in Traversals }) \cup scan.scanned

\* C18 (SpecTrav): no traversal emits or scans a file whose name begins with a
\* dot, a file under a directory whose name begins with a dot, a file under
\* node_modules, or a file under an excluded path prefix.
C18_ExcludedNeverHandedOn ==
  /\ \A f \in HandedOn :
       ~Dotfile(f) /\ ~UnderDotDir(f) /\ ~UnderNodeModules(f)
  /\ \A f \in scan.scanned : ~UnderExcluded(f)

\* C18, the part that holds (SpecTrav): nothing under a dot directory, under
\* node_modules or under an excluded prefix is emitted or scanned.
C18_ExcludedDirectoriesSkipped ==
  /\ \A f \in HandedOn : ~UnderDotDir(f) /\ ~UnderNodeModules(f)
  /\ \A f \in scan.scanned : ~UnderExcluded(f)

\* a directory the walker can read: stat and readdir both succeed on it
ReadableDir(d) ==
  /\ ~Stat(d).err /\ Stat(d).type = "dir"
  /\ ~Readdir(d).err

\* the test files of the readable part of the tree below a directory:
\* symbolic links, dot directories, node_modules and what lies beyond the
\* depth bound left aside
RECURSIVE ReadableTestFiles(_, _)
ReadableTestFiles(dir, depth) ==
  IF depth > MAX_DEPTH \/ ~ReadableDir(dir) THEN {}
  ELSE LET es == Readdir(dir).entries IN
    TestFilesIn(dir) \cup
    UNION { ReadableTestFiles(Append(dir, es[i].name), depth + 1) :
              i \in { j \in 1..Len(es) :
                        /\ es[j].type = "dir"
                        /\ Head(es[j].name) # "."
                        /\ es[j].name # <<"node_modules">> } }

WalkExpected ==
  UNION { ReadableTestFiles(Append(Root, StartDirs[i]), 0) : i \in 1..Len(StartDirs) }

\* the files the scanner is to read in the readable part of the tree below
\* a directory, with the exclusions the scanner applies
RECURSIVE ReadableScanFiles(_)
ReadableScanFiles(dir) ==
  IF Readdir(dir).err THEN {}
  ELSE LET es   == Readdir(dir).entries
           kept == { j \in 1..Len(es) :
                       ~\E d \in excludeDirs :
                          StartsWith(PathString(Append(dir, es[j].name)), PathString(d)) }
       IN { Append(dir, es[j].name) :
              j \in { k \in kept :
                        /\ es[k].type = "file" /\ ScanFileRe(es[k].name)
                        /\ ~Fails("stat", Append(dir, es[k].name))
                        /\ ~Fails("read", Append(dir, es[k].name))
                        /\ FileSize(Append(dir, es[k].name)) <= MAX_FILE_SIZE } }
          \cup
          UNION { ReadableScanFiles(Append(dir, es[j].name)) :
                    j \in { k \in kept :
                              /\ es[k].type = "dir"
                              /\ Head(es[k].name) # "."
                              /\ es[k].name # <<"node_modules">> } }

\* a traversal that ended read nothing it could not read and missed nothing
\* it could read
WalkerDegrades(t) ==
  walk[t].pc = "done" =>
    /\ WalkExpected \subseteq walk[t].emitted
    /\ \A f \in walk[t].emitted : ReadableDir(Parent(f))
    /\ \A d \in walk[t].listed : ReadableDir(d)

ScannerDegrades ==
  scan.pc = "done" =>
    /\ scan.result.status \in { "pass", "warn", "fail" }
    /\ scan.result.severity # "error"
    /\ scan.readFiles = ReadableScanFiles(SrcDir)
    /\ \A d \in scan.listed : ~Readdir(d).err

\* C19 (SpecTrav): whatever stat, readdir and read calls fail, a traversal
\* comes to its end without raising, leaves out exactly what it could not
\* read and hands on every matching file of the readable part of the tree.
C19_FailuresSkipExactlyUnreadable ==
  /\ \A t \in Traversals : Proceeds(t) /\ WalkerDegrades(t)
  /\ ScannerDegrades

\* C19, the part that holds (SpecTrav): the scanner does so, and so does a
\* walker while no other walker has been started.
C19_AloneDegrades ==
  /\ ScannerDegrades
  /\ \A t \in Traversals :
       (\A u \in Traversals \ {t} : walk[u].pc = "idle") =>
          (Proceeds(t) /\ WalkerDegrades(t))

\* the directories and the paths of the tree
DirCount  == Cardinality({ p \in DOMAIN FsTree : FsTree[p].type = "dir" })
PathCount == Cardinality(DOMAIN FsTree)

\* the file-system calls a traversal has completed
Steps(w) == w.stats + Len(w.visits)

VisitsBounded ==
  /\ \A t \in Traversals :
       /\ Proceeds(t)
       /\ Cardinality(Range(walk[t].visits)) = Len(walk[t].visits)
       /\ Len(walk[t].visits) <= DirCount
       /\ walk[t].stats <= PathCount
  /\ scan.visits <= DirCount
  /\ scan.pc = "done" => scan.result.severity # "error"

EveryStepCounts ==
  \A t \in Traversals :
    (walk[t]' # walk[t] /\ walk[t].pc # "idle") => Steps(walk[t]') > Steps(walk[t])

\* C20 (SpecTrav): on the tree with dir1/link -> dir2 and dir2/link -> dir1
\* every traversal ends after a bounded number of directory visits: a walker
\* lists no directory twice, each of its steps completes one more
\* file-system call, the calls are bounded by the size of the tree, and until
\* it has ended a step is due; the scanner's call returns having listed no
\* more directories than the tree has.
C20_SymlinkCycleTerminates ==
  /\ []VisitsBounded
  /\ [][EveryStepCounts]_vars

\* a walker and the scanner have ended, each having listed dir1 and dir2 once
C20_Witness ==
  /\ \E t \in Traversals :
       /\ walk[t].pc = "done"
       /\ { SrcDir \o << <<"dir1">> >>, SrcDir \o << <<"dir2">> >> } \subseteq walk[t].listed
  /\ scan.pc = "done"
  /\ { SrcDir \o << <<"dir1">> >>, SrcDir \o << <<"dir2">> >> } \subseteq scan.listed

\* the records of one line of one file, real and definition-tagged
LineRecords(file, n) ==
  { k \in 1..Len(scan.found) :
      scan.found[k].file = RelFile(file) /\ scan.found[k].line = n }

\* the line opens a block comment
OpensBlockComment(line) ==
  LET v == FirstVisible(line) IN
    Len(v) >= 2 /\ v[1].c = "/" /\ v[1].n = 1 /\ v[2].c = "*"

\* a comment line of a scanned source file: a line comment, a block comment
\* or the continuation of one
SourceComment(line) == CommentLine(line) \/ OpensBlockComment(line)

\* C21 (SpecScan): no record, real or definition-tagged, is produced for a
\* comment line or for a line that holds a placeholder marker, whatever
\* patterns the line matches.
C21_CommentLinesNeverReported ==
  \A f \in scan.readFiles :
    \A n \in 1..Len(FileLines(RealPath(f))) :
      LET line == FileLines(RealPath(f))[n] IN
        (SourceComment(line) \/ HasMarker(line)) => LineRecords(f, n) = {}

\* C21, the part that holds (SpecScan): no record is produced for a line that
\* starts, blanks aside, with //, # or *, or that holds a placeholder marker.
C21_TestedStartsNeverReported ==
  \A f \in scan.readFiles :
    \A n \in 1..Len(FileLines(RealPath(f))) :
      LET line == FileLines(RealPath(f))[n] IN
        (CommentLine(line) \/ HasMarker(line)) => LineRecords(f, n) = {}

\* a file above the size cap
TooLarge(f) == FileSize(RealPath(f)) > MAX_FILE_SIZE

\* C22 (SpecScan): the content of a file larger than MAX_FILE_SIZE is never
\* read: the file gives no record, and the files that follow it are scanned.
C22_LargeFilesNeverRead ==
  /\ \A f \in scan.scanned : TooLarge(f) =>
        /\ f \notin scan.readFiles
        /\ \A k \in 1..Len(scan.found) : scan.found[k].file # RelFile(f)
  /\ scan.pc = "done" /\ scan.result.status # "skip" =>
        /\ scan.readFiles = ReadableScanFiles(SrcDir)
        /\ scan.result.severity # "error"

\* the scan met src/big.json, which holds a key, left it unread and went on
\* to read the files that follow it
C22_Witness ==
  /\ scan.pc = "done"
  /\ BigFile \in scan.scanned /\ TooLarge(BigFile) /\ BigFile \in KeyFiles
  /\ BigFile \notin scan.readFiles
  /\ SrcDir \o << <<"dir2">>, <<"q", ".ts">> >> \in scan.readFiles

\* C23 (SpecProc): when the command cannot be spawned, the error handler
\* rejects with the spawn error in the step that reports it and clears the
\* timer; the timeout never fires afterwards and the rejection stands.
C23_SpawnErrorRejectsAtOnce ==
  /\ [][ (proc.state = "running" /\ proc'.state = "failed") =>
           /\ promise.state = "pending"
           /\ promise' = Rejected("spawn error")
           /\ timer = "armed" /\ timer' = "cleared" ]_vars
  /\ []( proc.state = "failed" =>
           (promise = Rejected("spawn error") /\ timer = "cleared") )
  /\ []( "spawn error" \in rejectCalls =>
           (promise = Rejected("spawn error") /\ timer = "cleared") )

\* the spawn failed, the promise is rejected with its error and the child's
\* close event has come in
C23_Witness ==
  /\ "spawn error" \in rejectCalls
  /\ proc.state = "closed"
  /\ promise = Rejected("spawn error")
  /\ timer = "cleared"

\* C24 (SpecTwice): a second scan of the unchanged tree gives the same
\* records as the first (files, line numbers and pattern names, as many of
\* them) and the same result, whatever order the directories are listed in.
C24_SecondScanSameRecords ==
  rescan # <<>> =>
    /\ Range(rescan[1].found) = Range(scan.found)
    /\ Len(rescan[1].found) = Len(scan.found)
    /\ rescan[1].readFiles = scan.readFiles
    /\ rescan[1].result = scan.result

\* the second scan listed the directories the other way round and pushed the
\* same records, of more than one file, in another order
C24_Witness ==
  /\ rescan # <<>>
  /\ rescan[1].order = "reversed"
  /\ rescan[1].found # scan.found
  /\ \E i, j \in 1..Len(scan.found) : scan.found[i].file # scan.found[j].file
  /\ Range(rescan[1].found) = Range(scan.found)

\* the place of a severity in the order info < low < moderate < high < critical
Rank(sev) == CHOOSE i \in 1..Len(Severities) : Severities[i] = sev

\* the audit ran and its report was parsed
AuditParsed ==
  /\ caller = "npm audit" /\ checkResult # <<>>
  /\ promise.state = "resolved" /\ promise.out > 0
  /\ toolOutput \in Range(Severities) \cup {"clean"}

\* C25 (SpecProc): with security.auditLevel set to L, the npm audit check
\* returns fail exactly when the audit reports a vulnerability of severity L
\* or higher.
C25_AuditLevelDecidesFailure ==
  (AuditParsed /\ auditLevel # "unset") =>
     ( checkResult[1].status = "fail" <=>
         (toolOutput # "clean" /\ Rank(toolOutput) >= Rank(auditLevel)) )

\* C25, what the check does (SpecProc): it fails exactly on high or critical
\* vulnerabilities, whatever the level.
C25_FailsOnHighOrCritical ==
  AuditParsed => (checkResult[1].status = "fail" <=> toolOutput \in {"high", "critical"})

\* the ids of the directories on the recursion paths of the traversals in
\* flight: a directory is being visited from the moment its id was added
OnRecursionPath ==
  UNION { { walk[t].stack[i].inode :
              i \in { j \in 1..Len(walk[t].stack) :
                        walk[t].stack[j].pc \in { "readdir", "loop" } } } :
          t \in Traversals }

\* C26 (SpecTrav): the visited set holds exactly the ids of the directories
\* being visited, on every way of leaving a directory its id is removed, and
\* the set is empty when no traversal is in flight.
C26_VisitedIsRecursionPath ==
  /\ visitedInodes = OnRecursionPath
  /\ (\A t \in Traversals : walk[t].pc \in { "idle", "done" }) => visitedInodes = {}

\* C26, the part that holds (SpecWalk): while every directory can be read and
\* lies within the root, the visited set is the recursion path and is empty
\* when the traversals have returned.
C26_ReadableVisitedIsPath ==
  unreadable = {} => C26_VisitedIsRecursionPath

\* how deep a path lies below the scan's start directory
ScanDepth(p) == Len(p) - Len(SrcDir)

\* C27 (SpecScan): the scanner's traversal lists no directory deeper than
\* the depth bound below src and reads no file from below the bound.
C27_ScannerDepthBounded ==
  /\ \A d \in scan.listed : ScanDepth(d) <= MAX_DEPTH
  /\ \A f \in scan.scanned : ScanDepth(Parent(f)) <= MAX_DEPTH

\* the runner's promise has been resolved or rejected
Settled == promise.state # "pending"

\* C28 (SpecSettle): whatever the order of the data, close, error and timer
\* events, the runner's promise is settled in the end, and once it is settled
\* no later event changes its outcome.
C28_SettlesExactlyOnce ==
  /\ <>Settled
  /\ [][Settled => promise' = promise]_vars

\* the promise was rejected, reject was called again with another reason,
\* and the child has closed since
C28_Witness ==
  /\ promise.state = "rejected"
  /\ Cardinality(rejectCalls) >= 2
  /\ proc.state = "closed"

\* C29 (SpecProc): once the runner has killed the process, for the timeout or
\* for too much output, no event resolves its promise, whatever code the
\* close event carries; and a resolved promise holds a stdout and a stderr of
\* at most maxBuffer each.
C29_NoResolveAfterKill ==
  /\ [][killed => promise'.state # "resolved"]_vars
  /\ [](promise.state = "resolved" =>
          /\ ~killed
          /\ promise.out <= maxBuffer
          /\ promise.err <= maxBuffer)

\* the process was killed by the runner and has closed since
C29_Witness ==
  /\ killed
  /\ proc.kills > 0
  /\ proc.state = "closed"
  /\ promise.reason \in { "timeout", "stdout maxBuffer", "stderr maxBuffer" }

\* the files with a scanned suffix below a directory, reached through
\* directories that are neither dot directories nor node_modules, leaving out
\* only an excluded directory and what lies beneath it
RECURSIVE EligibleScanFiles(_)
EligibleScanFiles(dir) ==
  IF Readdir(dir).err THEN {}
  ELSE LET es   == Readdir(dir).entries
           kept == { j \in 1..Len(es) : ~UnderExcluded(Append(dir, es[j].name)) }
       IN { Append(dir, es[j].name) :
              j \in { k \in kept : es[k].type = "file" /\ ScanFileRe(es[k].name) } }
          \cup
          UNION { EligibleScanFiles(Append(dir, es[j].name)) :
                    j \in { k \in kept :
                              /\ es[k].type = "dir"
                              /\ Head(es[k].name) # "."
                              /\ es[k].name # <<"node_modules">> } }

\* C30 (SpecScan): the exclusion removes only the excluded directory and what
\* lies beneath it: every other eligible file under src, a file in a sibling
\* directory whose path begins with the excluded path's string included, is
\* handed to scanFile.
C30_OnlyExcludedDirectorySkipped ==
  (scan.pc = "done" /\ SrcDir \in scan.listed) =>
     EligibleScanFiles(SrcDir) \subseteq scan.scanned

\* C30, what the scan does (SpecScan): an eligible file it leaves out has a
\* path string that begins with the string of an excluded path.
C30_SkippedShareLeadingString ==
  (scan.pc = "done" /\ SrcDir \in scan.listed) =>
     \A f \in EligibleScanFiles(SrcDir) \ scan.scanned :
        \E d \in excludeDirs : StartsWith(PathString(f), PathString(d))

====
